---- MODULE Spec2Model ----
(***************************************************************************)
(* Model of bantling/goparse, package internal/lexer: the hand-written     *)
(* lexer Lexer.Next() of src/internal/lexer/lexer.go.                      *)
(*                                                                         *)
(* Characters are codepoints (integers), texts are sequences of            *)
(* codepoints.  The process state is the package-level map uselessChars    *)
(* and the Lexer objects; one action models one whole Next() call.         *)
(***************************************************************************)
EXTENDS Integers, Sequences, FiniteSets, TLC

\* ------------------------------------------------------------------------
\* Codepoints of the characters the lexer tests for
\* ------------------------------------------------------------------------
ch_tab == 9
ch_lf == 10
ch_cr == 13
ch_space == 32
ch_dquote == 34
ch_squote == 39
ch_oparen == 40
ch_cparen == 41
ch_star == 42
ch_plus == 43
ch_comma == 44
ch_dash == 45
ch_slash == 47
ch_0 == 48
ch_1 == 49
ch_2 == 50
ch_9 == 57
ch_colon == 58
ch_semi == 59
ch_equals == 61
ch_qmark == 63
ch_A == 65
ch_X == 88
ch_Z == 90
ch_obracket == 91
ch_backslash == 92
ch_cbracket == 93
ch_hat == 94
ch_underscore == 95
ch_a == 97
ch_n == 110
ch_r == 114
ch_t == 116
ch_x == 120
ch_z == 122
ch_obrace == 123
ch_bar == 124
ch_cbrace == 125

\* ------------------------------------------------------------------------
\* LexType constants
\* ------------------------------------------------------------------------
InvalidLexType == 0
Comment == 1
Identifier == 2
String == 3
CharacterRange == 4
Repetition == 5
OptionAST == 6
OptionEOL == 7
OptionIndent == 8
OptionOutdent == 9
OptionPreEOL == 10
OptionPreIndent == 11
OptionPreOutdent == 12
Hat == 13
OpenParens == 14
CloseParens == 15
Bar == 16
Comma == 17
Equals == 18
DoubleEquals == 19
SemiColon == 20
EOF == 21

\* the option spellings :AST :EOL :INDENT :OUTDENT :PREEOL :PREINDENT :PREOUTDENT
optionStrings ==
    << <<58, 65, 83, 84>>,
       <<58, 69, 79, 76>>,
       <<58, 73, 78, 68, 69, 78, 84>>,
       <<58, 79, 85, 84, 68, 69, 78, 84>>,
       <<58, 80, 82, 69, 69, 79, 76>>,
       <<58, 80, 82, 69, 73, 78, 68, 69, 78, 84>>,
       <<58, 80, 82, 69, 79, 85, 84, 68, 69, 78, 84>> >>

\* the initial content of the package-level map uselessChars
UselessInit == (0 .. 8) \cup {11, 12} \cup (14 .. 31) \cup {127}

\* Error message constants, by name
ErrUnexpectedEOF == "ErrUnexpectedEOF"
ErrInvalidComment == "ErrInvalidComment"
ErrUnexpectedChar == "ErrUnexpectedChar"
ErrInvalidStringEscape == "ErrInvalidStringEscape"
ErrInvalidCharacterRangeEscape == "ErrInvalidCharacterRangeEscape"
ErrCharacterRangeEmpty == "ErrCharacterRangeEmpty"
ErrCharacterRangeOutOfOrder == "ErrCharacterRangeOutOfOrder"
ErrRepetitionForm == "ErrRepetitionForm"
ErrInvalidOption == "ErrInvalidOption"

\* ------------------------------------------------------------------------
\* Token
\* ------------------------------------------------------------------------
\* A Go map value is a reference.  charRange is nil, a map owned by the
\* token alone ("own", with its content), or the package-level map
\* uselessChars itself ("global").
NilMap == [ref |-> "nil", chars |-> {}]
OwnMap(S) == [ref |-> "own", chars |-> S]
GlobalMap == [ref |-> "global", chars |-> {}]

\* Token{typ, token, formattedToken}: the other fields keep Go's zero value
Tok(typ, token, formattedToken) ==
    [typ |-> typ, token |-> token, formattedToken |-> formattedToken,
     charRangeInverted |-> FALSE, charRange |-> NilMap, n |-> 0, m |-> 0]

RangeTok_noMap(typ, token, formattedToken, inverted, charRange) ==
    [typ |-> typ, token |-> token, formattedToken |-> formattedToken,
     charRangeInverted |-> inverted, charRange |-> NilMap, n |-> 0, m |-> 0]

RangeTok(typ, token, formattedToken, inverted, charRange) ==
    [typ |-> typ, token |-> token, formattedToken |-> formattedToken,
     charRangeInverted |-> inverted, charRange |-> charRange, n |-> 0, m |-> 0]

RepTok(typ, token, formattedToken, n, m) ==
    [typ |-> typ, token |-> token, formattedToken |-> formattedToken,
     charRangeInverted |-> FALSE, charRange |-> NilMap, n |-> n, m |-> m]

\* Token.Range(): the map the token refers to, as it is now
TokenRange(tok, useless) ==
    IF tok.charRange.ref = "global" THEN useless ELSE tok.charRange.chars

\* ------------------------------------------------------------------------
\* The local variables of one Next() call, with the cursor, the line
\* counter and the package-level map threaded through
\* ------------------------------------------------------------------------
NextVars(pos, lineNumber, useless) ==
    [status |-> "run", err |-> "", result |-> Tok(InvalidLexType, <<>>, <<>>),
     pos |-> pos, lineNumber |-> lineNumber, uselessChars |-> useless,
     lastReadCR |-> FALSE, typ |-> InvalidLexType,
     token |-> <<>>, formattedToken |-> <<>>,
     commentState |-> 0, doubleQuotes |-> FALSE,
     rangeState |-> 0, rangeInverted |-> FALSE, rangeBegin |-> 0,
     rangeChars |-> NilMap,
     repetitionState |-> FALSE, repetitionN |-> 0, repetitionM |-> 0,
     nextChar |-> 0, nextCharText |-> <<>>, nextCharEscaped |-> FALSE]

Panic(st, e) == [st EXCEPT !.status = "panic", !.err = e]
Return(st, tok) == [st EXCEPT !.status = "return", !.result = tok]

\* token.WriteRune(c); formattedToken.WriteString(text)
Write(st, c, text) ==
    [st EXCEPT !.token = Append(st.token, c),
               !.formattedToken = st.formattedToken \o text]

\* token.WriteString(nextCharText); formattedToken.WriteString(nextCharText)
WriteText(st) ==
    [st EXCEPT !.token = st.token \o st.nextCharText,
               !.formattedToken = st.formattedToken \o st.nextCharText]

\* l.iter.Next(): is there another rune
IterNext(input, pos) == pos < Len(input)

Unread_twice(st) == [st EXCEPT !.pos = st.pos - 2]

\* l.iter.Unread(nextChar): the rune just read is the next one read
Unread(st) == [st EXCEPT !.pos = st.pos - 1]

\* rangeChars[r] = true for every r of S: a write through the reference
SetRangeChars(st, S) ==
    IF st.rangeChars.ref = "global"
    THEN [st EXCEPT !.uselessChars = st.uselessChars \cup S]
    ELSE [st EXCEPT !.rangeChars = OwnMap(st.rangeChars.chars \cup S)]

\* ------------------------------------------------------------------------
\* handleEscapes
\* ------------------------------------------------------------------------
\* the switch on the character after a backslash: is it accepted, the
\* decoded character and the source text
escapeSwitch_bracketAnywhere(c, isString) ==
    CASE c = ch_backslash -> [ok |-> TRUE, ch |-> ch_backslash, text |-> <<ch_backslash, ch_backslash>>]
      [] c = ch_t -> [ok |-> TRUE, ch |-> ch_tab, text |-> <<ch_backslash, ch_t>>]
      [] c = ch_r -> [ok |-> TRUE, ch |-> ch_cr, text |-> <<ch_backslash, ch_r>>]
      [] c = ch_n -> [ok |-> TRUE, ch |-> ch_lf, text |-> <<ch_backslash, ch_n>>]
      [] c = ch_squote -> [ok |-> isString, ch |-> ch_squote, text |-> <<ch_backslash, ch_squote>>]
      [] c = ch_dquote -> [ok |-> isString, ch |-> ch_dquote, text |-> <<ch_backslash, ch_dquote>>]
      [] c = ch_cbracket -> [ok |-> TRUE, ch |-> ch_cbracket, text |-> <<ch_backslash, ch_cbracket>>]
      [] OTHER -> [ok |-> FALSE, ch |-> c, text |-> <<c>>]

escapeSwitch(c, isString) ==
    CASE c = ch_backslash -> [ok |-> TRUE, ch |-> ch_backslash, text |-> <<ch_backslash, ch_backslash>>]
      [] c = ch_t -> [ok |-> TRUE, ch |-> ch_tab, text |-> <<ch_backslash, ch_t>>]
      [] c = ch_r -> [ok |-> TRUE, ch |-> ch_cr, text |-> <<ch_backslash, ch_r>>]
      [] c = ch_n -> [ok |-> TRUE, ch |-> ch_lf, text |-> <<ch_backslash, ch_n>>]
      [] c = ch_squote -> [ok |-> isString, ch |-> ch_squote, text |-> <<ch_backslash, ch_squote>>]
      [] c = ch_dquote -> [ok |-> isString, ch |-> ch_dquote, text |-> <<ch_backslash, ch_dquote>>]
      [] c = ch_cbracket -> [ok |-> ~isString, ch |-> ch_cbracket, text |-> <<ch_backslash, ch_cbracket>>]
      [] OTHER -> [ok |-> FALSE, ch |-> c, text |-> <<c>>]

handleEscapes(input, st, isString) ==
    IF st.nextChar # ch_backslash
    THEN [st EXCEPT !.nextCharEscaped = FALSE]
    ELSE IF ~IterNext(input, st.pos)
    THEN Panic([st EXCEPT !.nextCharEscaped = TRUE], ErrUnexpectedEOF)
    ELSE LET c == input[st.pos + 1]
             e == escapeSwitch(c, isString)
             s1 == [st EXCEPT !.nextCharEscaped = TRUE, !.pos = st.pos + 1,
                              !.nextChar = c]
         IN  IF e.ok
             THEN [s1 EXCEPT !.nextChar = e.ch, !.nextCharText = e.text]
             ELSE IF isString
             THEN Panic(s1, ErrInvalidStringEscape)
             ELSE Panic(s1, ErrInvalidCharacterRangeEscape)

\* ------------------------------------------------------------------------
\* Next(): the first character of a token (case InvalidLexType)
\* ------------------------------------------------------------------------
isWhitespace_noTab(c) == c = ch_space \/ c = ch_cr \/ c = ch_lf

isWhitespace(c) == c = ch_space \/ c = ch_tab \/ c = ch_cr \/ c = ch_lf

isLetter(c) == (c >= ch_A /\ c <= ch_Z) \/ (c >= ch_a /\ c <= ch_z)

isDigit(c) == c >= ch_0 /\ c <= ch_9

isUpper(c) == c >= ch_A /\ c <= ch_Z

\* the characters that continue an Identifier
isIdentifierChar(c) == isLetter(c) \/ isDigit(c) \/ c = ch_underscore

countLine_everyLF(st) ==
    IF st.nextChar = ch_cr \/ st.nextChar = ch_lf
    THEN [st EXCEPT !.lineNumber = st.lineNumber + 1, !.lastReadCR = st.nextChar = ch_cr]
    ELSE [st EXCEPT !.lastReadCR = FALSE]

\* line number counting while whitespace is skipped
countLine(st) ==
    IF st.nextChar = ch_cr
    THEN [st EXCEPT !.lineNumber = st.lineNumber + 1, !.lastReadCR = TRUE]
    ELSE IF st.nextChar = ch_lf
    THEN IF st.lastReadCR
         THEN [st EXCEPT !.lastReadCR = FALSE]
         ELSE [st EXCEPT !.lineNumber = st.lineNumber + 1]
    ELSE [st EXCEPT !.lastReadCR = FALSE]

\* the shorthand repetitions ? * +
shorthandRepetition(c) ==
    CASE c = ch_qmark -> RepTok(Repetition, <<ch_qmark>>, <<ch_qmark>>, 0, 1)
      [] c = ch_star -> RepTok(Repetition, <<ch_star>>, <<ch_star>>, 0, -1)
      [] c = ch_plus -> RepTok(Repetition, <<ch_plus>>, <<ch_plus>>, 1, -1)

\* the single-character symbols ^ ( ) | , ;
symbolType(c) ==
    CASE c = ch_hat -> Hat
      [] c = ch_oparen -> OpenParens
      [] c = ch_cparen -> CloseParens
      [] c = ch_bar -> Bar
      [] c = ch_comma -> Comma
      [] c = ch_semi -> SemiColon

caseEquals_equalsAtEOF(input, st) ==
    IF ~IterNext(input, st.pos)
    THEN Return(st, Tok(Equals, <<ch_equals>>, <<ch_equals>>))
    ELSE LET c == input[st.pos + 1]
             s1 == [st EXCEPT !.pos = st.pos + 1, !.nextChar = c]
         IN  IF c = ch_equals
             THEN Return(s1, Tok(DoubleEquals, <<ch_equals, ch_equals>>, <<ch_equals, ch_equals>>))
             ELSE Return(Unread(s1), Tok(Equals, <<ch_equals>>, <<ch_equals>>))

\* '=' looks one character ahead for '=='
caseEquals_noUnread(input, st) ==
    IF ~IterNext(input, st.pos)
    THEN Panic(st, ErrUnexpectedEOF)
    ELSE LET c == input[st.pos + 1]
             s1 == [st EXCEPT !.pos = st.pos + 1, !.nextChar = c]
         IN  IF c = ch_equals
             THEN Return(s1, Tok(DoubleEquals, <<ch_equals, ch_equals>>, <<ch_equals, ch_equals>>))
             ELSE Return(s1, Tok(Equals, <<ch_equals>>, <<ch_equals>>))

caseEquals(input, st) ==
    IF ~IterNext(input, st.pos)
    THEN Panic(st, ErrUnexpectedEOF)
    ELSE LET c == input[st.pos + 1]
             s1 == [st EXCEPT !.pos = st.pos + 1, !.nextChar = c]
         IN  IF c = ch_equals
             THEN Return(s1, Tok(DoubleEquals, <<ch_equals, ch_equals>>, <<ch_equals, ch_equals>>))
             ELSE Return(Unread(s1), Tok(Equals, <<ch_equals>>, <<ch_equals>>))

caseInvalidLexType(input, st) ==
    LET c == st.nextChar
        s0 == [st EXCEPT !.lastReadCR = FALSE]
    IN  IF isWhitespace(c) THEN countLine(st)
        ELSE IF isLetter(c)
        THEN Write([s0 EXCEPT !.typ = Identifier], c, st.nextCharText)
        ELSE CASE c = ch_slash -> [s0 EXCEPT !.typ = Comment, !.commentState = 0]
               [] c = ch_dquote ->
                    [s0 EXCEPT !.typ = String, !.doubleQuotes = TRUE,
                               !.formattedToken = Append(s0.formattedToken, c)]
               [] c = ch_squote ->
                    [s0 EXCEPT !.typ = String, !.doubleQuotes = FALSE,
                               !.formattedToken = Append(s0.formattedToken, c)]
               [] c = ch_obracket ->
                    Write([s0 EXCEPT !.typ = CharacterRange, !.rangeState = 0,
                                     !.rangeInverted = FALSE,
                                     !.rangeChars = OwnMap({})], c, <<c>>)
               [] c = ch_obrace ->
                    Write([s0 EXCEPT !.typ = Repetition, !.repetitionState = FALSE,
                                     !.repetitionN = -1, !.repetitionM = -1], c, <<c>>)
               [] c \in {ch_qmark, ch_star, ch_plus} -> Return(s0, shorthandRepetition(c))
               [] c = ch_colon -> Write([s0 EXCEPT !.typ = OptionAST], c, <<c>>)
               [] c \in {ch_hat, ch_oparen, ch_cparen, ch_bar, ch_comma, ch_semi} ->
                    Return(s0, Tok(symbolType(c), <<c>>, <<c>>))
               [] c = ch_equals -> caseEquals(input, s0)
               [] OTHER -> Panic(s0, ErrUnexpectedChar)

\* ------------------------------------------------------------------------
\* Next(): case Identifier
\* ------------------------------------------------------------------------
caseIdentifier_noUnread(st) ==
    IF isIdentifierChar(st.nextChar)
    THEN Write(st, st.nextChar, st.nextCharText)
    ELSE Return(st, Tok(st.typ, st.token, st.formattedToken))

caseIdentifier(st) ==
    IF isIdentifierChar(st.nextChar)
    THEN Write(st, st.nextChar, st.nextCharText)
    ELSE Return(Unread(st), Tok(st.typ, st.token, st.formattedToken))

\* ------------------------------------------------------------------------
\* Next(): case Comment
\* ------------------------------------------------------------------------
caseComment(st) ==
    LET c == st.nextChar
    IN  CASE st.commentState = 0 ->
               IF c = ch_slash THEN [st EXCEPT !.commentState = 1]
               ELSE IF c = ch_star THEN [st EXCEPT !.commentState = 2]
               ELSE Panic(st, ErrInvalidComment)
          [] st.commentState = 1 ->
               IF c = ch_cr \/ c = ch_lf
               THEN Return(st, Tok(st.typ, st.token, st.formattedToken))
               ELSE Write(st, c, st.nextCharText)
          [] st.commentState = 2 ->
               IF c = ch_star THEN [st EXCEPT !.commentState = 3]
               ELSE Write(st, c, st.nextCharText)
          [] OTHER ->
               IF c = ch_slash
               THEN Return(st, Tok(st.typ, st.token, st.formattedToken))
               ELSE [Write(Write(st, ch_star, <<ch_star>>), c, st.nextCharText)
                       EXCEPT !.commentState = 2]

\* ------------------------------------------------------------------------
\* Next(): case String
\* ------------------------------------------------------------------------
\* is the character just read the terminating quote
isTerminatingQuote_anyEscape(doubleQuotes, c, escaped) ==
    \/ doubleQuotes /\ c = ch_dquote
    \/ ~doubleQuotes /\ c = ch_squote

isTerminatingQuote(doubleQuotes, c, escaped) ==
    \/ doubleQuotes /\ c = ch_dquote /\ ~escaped
    \/ ~doubleQuotes /\ c = ch_squote /\ ~escaped

caseString(input, st) ==
    LET s1 == handleEscapes(input, st, TRUE)
    IN  IF s1.status # "run" THEN s1
        ELSE IF isTerminatingQuote(s1.doubleQuotes, s1.nextChar, s1.nextCharEscaped)
        THEN LET f == Append(s1.formattedToken, s1.nextChar)
             IN  Return([s1 EXCEPT !.formattedToken = f], Tok(s1.typ, s1.token, f))
        ELSE Write(s1, s1.nextChar, s1.nextCharText)

\* ------------------------------------------------------------------------
\* Next(): case CharacterRange
\* ------------------------------------------------------------------------
\* Token{typ, token, formattedToken, charRangeInverted, charRange}
returnRange(st) ==
    Return(st, RangeTok(st.typ, st.token, st.formattedToken,
                        st.rangeInverted, st.rangeChars))

\* '^' as the first character: rangeInverted = true; rangeChars = uselessChars.
\* The assignment copies the map reference, not the map.
invertRange(st) ==
    [st EXCEPT !.rangeInverted = TRUE, !.rangeChars = GlobalMap]

\* an X-Y range specification is out of order
rangeOutOfOrder_strict(rangeBegin, rangeEnd) == rangeBegin >= rangeEnd

rangeOutOfOrder(rangeBegin, rangeEnd) == rangeBegin > rangeEnd

\* for r := rangeBegin; r <= nextChar; r++: the characters of an X-Y range
rangeSpan_exclusive(rangeBegin, rangeEnd) == rangeBegin .. (rangeEnd - 1)

rangeSpan(rangeBegin, rangeEnd) == rangeBegin .. rangeEnd

rangeState0_acceptEmpty(st) ==
    LET s2 == WriteText(st)
    IN  IF s2.nextChar = ch_hat /\ ~s2.rangeInverted
        THEN invertRange(s2)
        ELSE IF s2.nextChar = ch_cbracket /\ ~s2.nextCharEscaped
        THEN returnRange(s2)
        ELSE [s2 EXCEPT !.rangeState = 1, !.rangeBegin = s2.nextChar]

rangeState0(st) ==
    LET s2 == WriteText(st)
    IN  IF s2.nextChar = ch_hat /\ ~s2.rangeInverted
        THEN invertRange(s2)
        ELSE IF s2.nextChar = ch_cbracket /\ ~s2.nextCharEscaped
        THEN IF s2.rangeInverted
             THEN returnRange(s2)
             ELSE Panic(s2, ErrCharacterRangeEmpty)
        ELSE [s2 EXCEPT !.rangeState = 1, !.rangeBegin = s2.nextChar]

rangeState1(st) ==
    LET s2 == WriteText(st)
    IN  IF s2.nextChar = ch_cbracket /\ ~s2.nextCharEscaped
        THEN returnRange(SetRangeChars(s2, {s2.rangeBegin}))
        ELSE IF s2.nextChar = ch_dash
        THEN [s2 EXCEPT !.rangeState = 2]
        ELSE [SetRangeChars(s2, {s2.rangeBegin}) EXCEPT !.rangeBegin = s2.nextChar]

rangeState2(st) ==
    LET s2 == WriteText(st)
    IN  IF s2.nextChar = ch_cbracket /\ ~s2.nextCharEscaped
        THEN returnRange(SetRangeChars(s2, {s2.rangeBegin, ch_dash}))
        ELSE IF rangeOutOfOrder(s2.rangeBegin, s2.nextChar)
        THEN Panic(s2, ErrCharacterRangeOutOfOrder)
        ELSE [SetRangeChars(s2, rangeSpan(s2.rangeBegin, s2.nextChar)) EXCEPT !.rangeState = 3]

rangeState3(st) ==
    LET s2 == WriteText(st)
    IN  IF s2.nextChar = ch_cbracket /\ ~s2.nextCharEscaped
        THEN returnRange(s2)
        ELSE [s2 EXCEPT !.rangeState = 1, !.rangeBegin = s2.nextChar]

caseCharacterRange(input, st) ==
    LET s1 == handleEscapes(input, st, FALSE)
    IN  IF s1.status # "run" THEN s1
        ELSE CASE s1.rangeState = 0 -> rangeState0(s1)
               [] s1.rangeState = 1 -> rangeState1(s1)
               [] s1.rangeState = 2 -> rangeState2(s1)
               [] OTHER -> rangeState3(s1)

\* ------------------------------------------------------------------------
\* Next(): case Repetition
\* ------------------------------------------------------------------------
\* repetitionN = repetitionN*10 + digit, starting from the first digit
addDigit_noshift(v, c) == IF v = -1 THEN c - ch_0 ELSE v + (c - ch_0)

addDigit(v, c) == IF v = -1 THEN c - ch_0 ELSE v * 10 + (c - ch_0)

\* the checks made at '}' after a comma was read: is the form rejected
rejectNM(n, m) == (n = -1 /\ m = -1) \/ m = 0

\* the check made at '}' when no comma was read: is the form rejected
rejectN(n) == n < 1

readingN(st) ==
    LET c == st.nextChar
    IN  IF isDigit(c)
        THEN Write([st EXCEPT !.repetitionN = addDigit(st.repetitionN, c)], c, st.nextCharText)
        ELSE IF c = ch_comma
        THEN Write([st EXCEPT !.repetitionState = TRUE], c, st.nextCharText)
        ELSE IF c = ch_cbrace
        THEN LET s1 == Write(st, c, st.nextCharText)
             IN  IF rejectN(s1.repetitionN)
                 THEN Panic(s1, ErrRepetitionForm)
                 ELSE Return(s1, RepTok(s1.typ, s1.token, s1.formattedToken,
                                        s1.repetitionN, s1.repetitionN))
        ELSE Panic(st, ErrRepetitionForm)

readingM(st) ==
    LET c == st.nextChar
    IN  IF isDigit(c)
        THEN Write([st EXCEPT !.repetitionM = addDigit(st.repetitionM, c)], c, st.nextCharText)
        ELSE IF c = ch_cbrace
        THEN IF rejectNM(st.repetitionN, st.repetitionM)
             THEN Panic(st, ErrRepetitionForm)
             ELSE LET s1 == Write(st, c, st.nextCharText)
                      n == IF s1.repetitionN = -1 THEN 0 ELSE s1.repetitionN
                  IN  Return([s1 EXCEPT !.repetitionN = n],
                             RepTok(s1.typ, s1.token, s1.formattedToken, n, s1.repetitionM))
        ELSE Panic(st, ErrRepetitionForm)

caseRepetition(st) == IF ~st.repetitionState THEN readingN(st) ELSE readingM(st)

\* ------------------------------------------------------------------------
\* Next(): case OptionAST
\* ------------------------------------------------------------------------
\* the indexes i (from 0) with optionStrings[i] equal to the text read
matchingOptions_prefix(tokenStr) ==
    {i \in 0 .. Len(optionStrings) - 1 :
        /\ Len(tokenStr) <= Len(optionStrings[i + 1])
        /\ SubSeq(optionStrings[i + 1], 1, Len(tokenStr)) = tokenStr}

matchingOptions(tokenStr) ==
    {i \in 0 .. Len(optionStrings) - 1 : optionStrings[i + 1] = tokenStr}

\* the for loop returns at the first match
firstMatch(S) == CHOOSE i \in S : \A j \in S : i <= j

caseOptionAST(st) ==
    IF isUpper(st.nextChar)
    THEN Write(st, st.nextChar, st.nextCharText)
    ELSE LET s1 == Unread(st)
             found == matchingOptions(s1.token)
         IN  IF found # {}
             THEN Return(s1, Tok(OptionAST + firstMatch(found), s1.token, s1.formattedToken))
             ELSE Panic(s1, ErrInvalidOption)

\* ------------------------------------------------------------------------
\* Next(): MAIN_LOOP
\* ------------------------------------------------------------------------
\* EOF only valid if read after a complete token
noTokenInProgress_identifier(typ) == typ = InvalidLexType \/ typ = Identifier

noTokenInProgress(typ) == typ = InvalidLexType

\* one iteration: read a rune or meet the end of input, then switch on typ
mainLoopBody(input, st) ==
    IF ~IterNext(input, st.pos)
    THEN IF noTokenInProgress(st.typ)
         THEN Return(st, Tok(EOF, <<>>, <<>>))
         ELSE Panic(st, ErrUnexpectedEOF)
    ELSE LET c == input[st.pos + 1]
             s1 == [st EXCEPT !.pos = st.pos + 1, !.nextChar = c, !.nextCharText = <<c>>]
         IN  CASE s1.typ = InvalidLexType -> caseInvalidLexType(input, s1)
               [] s1.typ = Identifier -> caseIdentifier(s1)
               [] s1.typ = Comment -> caseComment(s1)
               [] s1.typ = String -> caseString(input, s1)
               [] s1.typ = CharacterRange -> caseCharacterRange(input, s1)
               [] s1.typ = Repetition -> caseRepetition(s1)
               [] OTHER -> caseOptionAST(s1)

RECURSIVE mainLoop(_, _)
mainLoop(input, st) ==
    IF st.status # "run" THEN st ELSE mainLoop(input, mainLoopBody(input, st))

\* Lexer.Next() on a lexer over input at cursor pos: the final local state,
\* whose status is "return" (with result) or "panic" (with err)
LexerNextRun(input, pos, lineNumber, useless) ==
    mainLoop(input, NextVars(pos, lineNumber, useless))

\* ------------------------------------------------------------------------
\* AST nodes (package parser).  Go strings are sequences of codepoints; a
\* map field holds a reference, as Token.charRange does.
\* ------------------------------------------------------------------------
\* SourceNode{sourceString}
OfSourceNode_blank(sourceString) == [sourceString |-> <<>>]

OfSourceNode(sourceString) == [sourceString |-> sourceString]

\* SourceNode.String(), promoted to every node that embeds SourceNode
SourceNodeString(node) == node.SourceNode.sourceString

\* Terminal
OfTerminalString(sourceString, terminalString) ==
    [SourceNode |-> OfSourceNode(sourceString), type |-> "Terminal",
     theString |-> terminalString, theRange |-> NilMap]

OfTerminalRange(sourceString, theRange) ==
    [SourceNode |-> OfSourceNode(sourceString), type |-> "Terminal",
     theString |-> <<>>, theRange |-> theRange]

\* Terminal{}: the zero value
ZeroTerminal ==
    [SourceNode |-> [sourceString |-> <<>>], type |-> "Terminal",
     theString |-> <<>>, theRange |-> NilMap]

IsString(t) == Len(t.theString) > 0

TerminalString(t) == t.theString

\* Terminal.TerminalRange(): the map the terminal refers to, as it is now
TerminalRange(t, useless) ==
    IF t.theRange.ref = "global" THEN useless ELSE t.theRange.chars

IsRange(t, useless) == Cardinality(TerminalRange(t, useless)) > 0

\* ListItem
OfListItemRuleName(sourceString, ruleName, options) ==
    [SourceNode |-> OfSourceNode(sourceString), type |-> "ListItem",
     ruleName |-> ruleName, options |-> options, terminal |-> ZeroTerminal]

OfListItemTerminal(sourceString, terminal, options) ==
    [SourceNode |-> OfSourceNode(sourceString), type |-> "ListItem",
     ruleName |-> <<>>, options |-> options, terminal |-> terminal]

IsRuleName(itm) == Len(itm.ruleName) > 0

IsTerminal_byTerminal(itm) == itm.terminal # ZeroTerminal

IsTerminal(itm) == Len(itm.ruleName) = 0

RuleName(itm) == itm.ruleName

ListItemTerminal(itm) == itm.terminal

\* ExpressionItem
OfExpressionItem(sourceString, list, n, m) ==
    [n |-> n, m |-> m, SourceNode |-> OfSourceNode(sourceString),
     type |-> "ExpressionItem", list |-> list]

\* Expression
OfExpression(sourceString, items) ==
    [SourceNode |-> OfSourceNode(sourceString), type |-> "Expression",
     items |-> items]

\* Rule
OfRule(sourceString, name, expr) ==
    [SourceNode |-> OfSourceNode(sourceString), type |-> "Rule",
     name |-> name, expr |-> expr]

\* Grammar
OfGrammar(sourceString, rules) ==
    [SourceNode |-> OfSourceNode(sourceString), type |-> "Grammar",
     rules |-> rules]

\* ------------------------------------------------------------------------
\* Pretty-printing (the String() methods of the nodes that format their
\* fields instead of returning the source string)
\* ------------------------------------------------------------------------
\* lexTypeStrings[opt]: the spelling of an option, "" for a type the map
\* has no entry for
lexTypeStrings(opt) ==
    IF opt \in {OptionAST, OptionEOL, OptionIndent, OptionOutdent}
    THEN optionStrings[opt - OptionAST + 1]
    ELSE << >>

\* a hexadecimal digit as strconv writes it
hexDigit(d) == IF d < 10 THEN ch_0 + d ELSE ch_a + (d - 10)

\* strconv.Quote on one ASCII character
quoteChar(c) ==
    IF c = ch_dquote \/ c = ch_backslash THEN <<ch_backslash, c>>
    ELSE IF c = 7 THEN <<ch_backslash, 97>>
    ELSE IF c = 8 THEN <<ch_backslash, 98>>
    ELSE IF c = 12 THEN <<ch_backslash, 102>>
    ELSE IF c = ch_lf THEN <<ch_backslash, ch_n>>
    ELSE IF c = ch_cr THEN <<ch_backslash, ch_r>>
    ELSE IF c = ch_tab THEN <<ch_backslash, ch_t>>
    ELSE IF c = 11 THEN <<ch_backslash, 118>>
    ELSE IF c < 32 \/ c = 127
    THEN <<ch_backslash, ch_x, hexDigit(c \div 16), hexDigit(c % 16)>>
    ELSE <<c>>

RECURSIVE quoteChars(_)
quoteChars(s) == IF s = << >> THEN << >> ELSE quoteChar(Head(s)) \o quoteChars(Tail(s))

\* fmt.Sprintf("%q", s) for an ASCII string
Quote(s) == <<ch_dquote>> \o quoteChars(s) \o <<ch_dquote>>

RECURSIVE Itoa(_)
\* strconv.Itoa
Itoa(n) ==
    IF n < 0 THEN <<ch_dash>> \o Itoa(0 - n)
    ELSE IF n < 10 THEN <<ch_0 + n>>
    ELSE Itoa(n \div 10) \o <<ch_0 + (n % 10)>>

\* strings.Index: the start of the first occurrence of a non-empty substr
\* in s, counted from 1, or 0
Index(s, substr) ==
    LET found == { i \in 1 .. Len(s) - Len(substr) + 1 :
                       SubSeq(s, i, i + Len(substr) - 1) = substr }
    IN  IF found = {} THEN 0 ELSE CHOOSE i \in found : \A j \in found : i <= j

ReplaceAll_first(s, old, new) ==
    LET i == Index(s, old)
    IN  IF i = 0 THEN s
        ELSE SubSeq(s, 1, i - 1) \o new \o SubSeq(s, i + Len(old), Len(s))

RECURSIVE ReplaceAll(_, _, _)
\* strings.ReplaceAll for a non-empty old: the non-overlapping occurrences,
\* found from left to right
ReplaceAll(s, old, new) ==
    LET i == Index(s, old)
    IN  IF i = 0 THEN s
        ELSE SubSeq(s, 1, i - 1) \o new
                 \o ReplaceAll(SubSeq(s, i + Len(old), Len(s)), old, new)

\* Terminal.String(): a string is written with %q; for a range the sorted
\* characters are collected, but nothing is assigned to the result
Terminal_String(t) ==
    IF IsString(t) THEN Quote(t.theString) ELSE << >>

RECURSIVE optionSpellings(_)
\* the loop over the options of a ListItem
optionSpellings(options) ==
    IF options = << >> THEN << >>
    ELSE lexTypeStrings(Head(options)) \o optionSpellings(Tail(options))

\* ListItem.String()
ListItem_String(itm) ==
    (IF Len(itm.ruleName) > 0 THEN itm.ruleName ELSE << >>)
        \o Terminal_String(itm.terminal)
        \o optionSpellings(itm.options)

RECURSIVE listItems(_, _)
\* the loop over the list of an ExpressionItem, from item i on
listItems(list, i) ==
    IF i > Len(list) THEN << >>
    ELSE (IF i > 1 THEN <<ch_space>> ELSE << >>)
             \o ListItem_String(list[i]) \o listItems(list, i + 1)

repetitionSuffix_noOpenEnd(n, m) ==
    IF n = 0 /\ m = 1 THEN <<ch_qmark>>
    ELSE IF n = 0 /\ m = -1 THEN <<ch_star>>
    ELSE IF n = 1 /\ m = -1 THEN <<ch_plus>>
    ELSE IF n > 0 /\ (m = n \/ m = -1) THEN <<ch_obrace>> \o Itoa(n) \o <<ch_cbrace>>
    ELSE IF n = 0 /\ m > 0 THEN <<ch_obrace, ch_comma>> \o Itoa(m) \o <<ch_cbrace>>
    ELSE IF n > 0 /\ m > 0
    THEN <<ch_obrace>> \o Itoa(n) \o <<ch_comma>> \o Itoa(m) \o <<ch_cbrace>>
    ELSE << >>

repetitionSuffix_braces(n, m) ==
    <<ch_obrace>> \o Itoa(n) \o <<ch_comma>> \o Itoa(m) \o <<ch_cbrace>>

\* the switch that writes the repetition after the closing parenthesis
repetitionSuffix(n, m) ==
    IF n = 0 /\ m = 1 THEN <<ch_qmark>>
    ELSE IF n = 0 /\ m = -1 THEN <<ch_star>>
    ELSE IF n = 1 /\ m = -1 THEN <<ch_plus>>
    ELSE IF n > 0 /\ m = n THEN <<ch_obrace>> \o Itoa(n) \o <<ch_cbrace>>
    ELSE IF n > 0 /\ m = -1 THEN <<ch_obrace>> \o Itoa(n) \o <<ch_comma, ch_cbrace>>
    ELSE IF n = 0 /\ m > 0 THEN <<ch_obrace, ch_comma>> \o Itoa(m) \o <<ch_cbrace>>
    ELSE IF n > 0 /\ m > 0
    THEN <<ch_obrace>> \o Itoa(n) \o <<ch_comma>> \o Itoa(m) \o <<ch_cbrace>>
    ELSE << >>

\* ExpressionItem.String()
ExpressionItem_String(itm) ==
    LET haveRepetitions == ~(itm.n = 1 /\ itm.m = 1)
    IN  IF haveRepetitions
        THEN <<ch_oparen>> \o listItems(itm.list, 1) \o <<ch_cparen>>
                 \o repetitionSuffix(itm.n, itm.m)
        ELSE listItems(itm.list, 1)

sameLineSeparator == <<ch_space, ch_bar, ch_space>>

nextLineSeparator == <<ch_lf, ch_space, ch_space, ch_space, ch_space, ch_bar, ch_space>>

RECURSIVE expressionLoop(_, _, _, _)
\* the loop of Expression.String() from alternative i on, over the texts
\* of the alternatives
expressionLoop(texts, i, result, isSameLine) ==
    IF i > Len(texts) THEN result
    ELSE IF i = 1 THEN expressionLoop(texts, 2, result \o texts[1], isSameLine)
    ELSE IF isSameLine
    THEN LET written == result \o sameLineSeparator
         IN  IF Len(written) >= 80
             THEN expressionLoop(texts, i + 1,
                      ReplaceAll(written, sameLineSeparator, nextLineSeparator) \o texts[i],
                      FALSE)
             ELSE expressionLoop(texts, i + 1, written \o texts[i], TRUE)
    ELSE expressionLoop(texts, i + 1, result \o nextLineSeparator \o texts[i], FALSE)

\* Expression.String()
Expression_String(e) ==
    expressionLoop([k \in 1 .. Len(e.items) |-> ExpressionItem_String(e.items[k])],
                   1, << >>, TRUE)

\* Rule.String()
Rule_String(r) ==
    r.name \o <<ch_space, ch_equals, ch_space>> \o Expression_String(r.expr) \o <<ch_semi>>

RECURSIVE grammarLoop(_, _)
grammarLoop(rules, i) ==
    IF i > Len(rules) THEN << >>
    ELSE (IF i > 1 THEN <<ch_lf>> ELSE << >>) \o Rule_String(rules[i]) \o grammarLoop(rules, i + 1)

\* Grammar.String()
Grammar_String(g) == grammarLoop(g.rules, 1)

\* String() of a node of any type
Node_String(node) ==
    IF node.type = "Terminal" THEN Terminal_String(node)
    ELSE IF node.type = "ListItem" THEN ListItem_String(node)
    ELSE IF node.type = "ExpressionItem" THEN ExpressionItem_String(node)
    ELSE IF node.type = "Expression" THEN Expression_String(node)
    ELSE IF node.type = "Rule" THEN Rule_String(node)
    ELSE Grammar_String(node)

\* ------------------------------------------------------------------------
\* The process: the package-level map, the Lexer objects and the AST node
\* built last
\* ------------------------------------------------------------------------
\* bounds of the model
NumLexers == 2
MaxLexers == 2

Lexers == 1 .. NumLexers

VARIABLES
    uselessChars,   \* the package-level map uselessChars (its key set)
    lexers,         \* per Lexer: input (the runes of its reader, given in
                    \* so many pieces), pos (runes the iterator has
                    \* delivered, net of Unread), lineNumber
    results,        \* per Lexer: the outcome of its latest Next() call
    created,        \* number of NewLexer calls so far
    nodes,          \* the AST node constructed last, and the constructor
                    \* call that made it
    rendered,       \* the latest pretty-printing String() call: the node
                    \* and the text it returned
    parsed,         \* the outcome of the latest parseGrammar() call
    tableLexer      \* the table-driven lexer of package goparse: its reader,
                    \* the place of its iterator and the outcome of its
                    \* latest next() call

vars == <<uselessChars, lexers, results, created, nodes, rendered, parsed, tableLexer>>

NoResult(status) ==
    [token |-> Tok(InvalidLexType, <<>>, <<>>), status |-> status, err |-> "", from |-> 0]

\* no node was constructed yet
NoNode == [node |-> [type |-> "none"], call |-> [op |-> "none"]]

\* no node was pretty-printed yet
NoRendering == [op |-> "none"]

\* parseGrammar() was not called yet
NoParse == [status |-> "none"]

\* newLexer was not called yet
NoTableLexer == [pos |-> 0, status |-> "unborn", input |-> <<>>, pieces |-> 0]

Init ==
    /\ uselessChars = UselessInit
    /\ lexers = [i \in Lexers |-> [pos |-> 0, lineNumber |-> 1, input |-> <<>>, pieces |-> 0]]
    /\ results = [i \in Lexers |-> NoResult("unborn")]
    /\ created = 0
    /\ nodes = NoNode
    /\ rendered = NoRendering
    /\ parsed = NoParse
    /\ tableLexer = NoTableLexer

\* NewLexer(source): a Lexer over a reader, at line 1
NewLexer(i) ==
    /\ created < MaxLexers
    /\ created' = created + 1
    /\ lexers' = [lexers EXCEPT ![i] = [pos |-> 0, lineNumber |-> 1, input |-> <<>>, pieces |-> 0]]
    /\ results' = [results EXCEPT ![i] = NoResult("new")]
    /\ UNCHANGED <<uselessChars, nodes, rendered, parsed, tableLexer>>

\* The content of the reader is the caller's choice: it is fixed piece by
\* piece before the first Next() call.
Feed(i, text) ==
    /\ results[i].status = "new"
    /\ lexers' = [lexers EXCEPT ![i].input = @ \o text, ![i].pieces = @ + 1]
    /\ UNCHANGED <<uselessChars, results, created, nodes, rendered, parsed, tableLexer>>

\* a Lexer can be asked for a token until it returned EOF or panicked
CanCallNext(i) ==
    \/ results[i].status = "new"
    \/ results[i].status = "return" /\ results[i].token.typ # EOF

\* Lexer.Next()
LexerNext(i) ==
    /\ CanCallNext(i)
    /\ LET l == lexers[i]
           r == LexerNextRun(l.input, l.pos, l.lineNumber, uselessChars)
       IN  /\ lexers' = [lexers EXCEPT ![i].pos = r.pos, ![i].lineNumber = r.lineNumber]
           /\ uselessChars' = r.uselessChars
           /\ results' = [results EXCEPT ![i] =
                            [token |-> r.result, status |-> r.status,
                             err |-> r.err, from |-> l.pos]]
    /\ UNCHANGED <<created, nodes, rendered, parsed, tableLexer>>

\* ------------------------------------------------------------------------
\* Readers holding one character range
\* ------------------------------------------------------------------------
MaxRangeContent == 4

RangeAlphabet == {ch_hat, ch_dash, ch_a, ch_backslash, ch_cbracket}

RECURSIVE TrailingBackslashes(_)
TrailingBackslashes(s) ==
    IF s = <<>> \/ s[Len(s)] # ch_backslash THEN 0
    ELSE 1 + TrailingBackslashes(SubSeq(s, 1, Len(s) - 1))

\* the text ends in an unescaped ']'
EndsUnescaped(s, c) ==
    /\ Len(s) >= 2
    /\ s[Len(s)] = c
    /\ TrailingBackslashes(SubSeq(s, 1, Len(s) - 1)) % 2 = 0

\* '[', an optional '^', at most MaxRangeContent further characters and the
\* closing ']'; nothing follows the closing ']'
RangeShape(s, c) ==
    IF s = <<>> THEN c = ch_obracket
    ELSE /\ c \in RangeAlphabet
         /\ ~EndsUnescaped(s, ch_cbracket)
         /\ \/ c = ch_cbracket /\ TrailingBackslashes(s) % 2 = 0
            \/ Len(s) - 1 < MaxRangeContent + (IF Len(s) >= 2 /\ s[2] = ch_hat THEN 1 ELSE 0)

FeedRange == \E c \in RangeAlphabet \cup {ch_obracket} :
                 RangeShape(lexers[1].input, c) /\ Feed(1, <<c>>)

NextRange == NewLexer(1) \/ FeedRange \/ LexerNext(1)

SpecRange == Init /\ [][NextRange]_vars

\* ------------------------------------------------------------------------
\* What a returned token was read from
\* ------------------------------------------------------------------------
Returned(i) == results[i].status = "return"

Panicked(i, e) == results[i].status = "panic" /\ results[i].err = e

RECURSIVE SkipWhitespace(_, _)
\* the cursor after the whitespace that follows position p
SkipWhitespace(input, p) ==
    IF p < Len(input) /\ input[p + 1] \in {ch_space, ch_tab, ch_cr, ch_lf}
    THEN SkipWhitespace(input, p + 1) ELSE p

\* the source text of the latest token of Lexer i: from its first
\* significant character to the cursor
TokenSource(i) ==
    SubSeq(lexers[i].input, SkipWhitespace(lexers[i].input, results[i].from) + 1,
           lexers[i].pos)

\* ------------------------------------------------------------------------
\* The dash policy of character ranges, as the documentation states it
\* ------------------------------------------------------------------------
EscapedChar(c) ==
    CASE c = ch_t -> ch_tab [] c = ch_r -> ch_cr [] c = ch_n -> ch_lf [] OTHER -> c

RECURSIVE Unescaped(_)
\* the characters a range content denotes, escapes decoded
Unescaped(s) ==
    IF s = <<>> THEN <<>>
    ELSE IF s[1] = ch_backslash /\ Len(s) >= 2
    THEN <<EscapedChar(s[2])>> \o Unescaped(SubSeq(s, 3, Len(s)))
    ELSE <<s[1]>> \o Unescaped(Tail(s))

RECURSIVE DashPolicy(_)
\* read left to right: X-Y is a range unless the dash is the last
\* character; a dash in the place of X is a literal
DashPolicy(u) ==
    IF u = <<>> THEN {}
    ELSE IF Len(u) >= 3 /\ u[2] = ch_dash
    THEN (u[1] .. u[3]) \cup DashPolicy(SubSeq(u, 4, Len(u)))
    ELSE {u[1]} \cup DashPolicy(Tail(u))

\* the characters listed between '[' (or '[^') and the closing ']'
ListedChars(src, inverted) ==
    DashPolicy(Unescaped(SubSeq(src, IF inverted THEN 3 ELSE 2, Len(src) - 1)))

IsRangeToken(i, inverted) ==
    /\ Returned(i)
    /\ results[i].token.typ = CharacterRange
    /\ results[i].token.charRangeInverted = inverted

\* C1: every inverted character range [^...] yields a CharacterRange token
\* with InvertedRange() = true whose Range() is exactly the useless control
\* characters united with the characters listed in the range, after any
\* earlier Next() calls in the process.
C1_InvertedRangeExact ==
    \A i \in Lexers :
        /\ Returned(i) /\ results[i].token.typ = CharacterRange
           /\ Len(TokenSource(i)) >= 2 /\ TokenSource(i)[2] = ch_hat
           => results[i].token.charRangeInverted
        /\ IsRangeToken(i, TRUE)
           => TokenRange(results[i].token, uselessChars)
                = UselessInit \cup ListedChars(TokenSource(i), TRUE)

\* C6: for every well-formed non-inverted character range, Range() is the
\* set the dash policy gives for the content read left to right, and
\* Token() and String() both equal the source text including the brackets.
C6_RangeDashPolicy ==
    \A i \in Lexers :
        IsRangeToken(i, FALSE)
        => /\ TokenRange(results[i].token, uselessChars)
                = ListedChars(TokenSource(i), FALSE)
           /\ results[i].token.token = TokenSource(i)
           /\ results[i].token.formattedToken = TokenSource(i)

\* a non-inverted range whose first dash is a literal that begins an X-Y
\* range and whose last dash is a literal after that range: [--a-]
C6_Witness ==
    /\ IsRangeToken(1, FALSE)
    /\ TokenSource(1) = <<ch_obracket, ch_dash, ch_dash, ch_a, ch_dash, ch_cbracket>>
    /\ TokenRange(results[1].token, uselessChars) = ch_dash .. ch_a

\* ------------------------------------------------------------------------
\* Readers holding one repetition
\* ------------------------------------------------------------------------
MaxRepContent == 5

RepAlphabet == {ch_0, ch_1, ch_2, ch_comma, ch_space, ch_cbrace}

\* '?', '*', '+', or '{' with at most MaxRepContent further characters and
\* the closing '}'; nothing follows a complete repetition
RepShape(s, c) ==
    IF s = <<>> THEN c \in {ch_obrace, ch_qmark, ch_star, ch_plus}
    ELSE /\ s[1] = ch_obrace
         /\ c \in RepAlphabet
         /\ s[Len(s)] # ch_cbrace
         /\ (c = ch_cbrace \/ Len(s) - 1 < MaxRepContent)

FeedRepetition == \E c \in RepAlphabet \cup {ch_obrace, ch_qmark, ch_star, ch_plus} :
                      RepShape(lexers[1].input, c) /\ Feed(1, <<c>>)

NextRepetition == NewLexer(1) \/ FeedRepetition \/ LexerNext(1)

SpecRepetition == Init /\ [][NextRepetition]_vars

\* ------------------------------------------------------------------------
\* The repetition notations, as the documentation states them
\* ------------------------------------------------------------------------
RECURSIVE DecimalValue(_)
DecimalValue(s) ==
    IF s = <<>> THEN 0
    ELSE DecimalValue(SubSeq(s, 1, Len(s) - 1)) * 10 + (s[Len(s)] - ch_0)

Commas(s) == {k \in 1 .. Len(s) : s[k] = ch_comma}

\* the text between the braces
RepBody(src) == SubSeq(src, 2, Len(src) - 1)

\* the digits before and after the comma of a body with one comma
RepNPart(body) == SubSeq(body, 1, (CHOOSE k \in Commas(body) : TRUE) - 1)
RepMPart(body) == SubSeq(body, (CHOOSE k \in Commas(body) : TRUE) + 1, Len(body))

\* '{', digits with at most one comma, '}': includes {} and {,}
IsBraced(src) ==
    /\ Len(src) >= 2 /\ src[1] = ch_obrace /\ src[Len(src)] = ch_cbrace
    /\ Cardinality(Commas(RepBody(src))) <= 1
    /\ \A k \in 1 .. Len(RepBody(src)) : RepBody(src)[k] \in (ch_0 .. ch_9) \cup {ch_comma}

\* {N}, {N,}, {,M} or {N,M}
IsBracedNotation(src) ==
    /\ IsBraced(src)
    /\ RepBody(src) # <<>> /\ RepBody(src) # <<ch_comma>>

IsShorthand(src) == src \in {<<ch_qmark>>, <<ch_star>>, <<ch_plus>>}

\* the bounds (n, m) a notation stands for
NotationBounds(src) ==
    CASE src = <<ch_qmark>> -> <<0, 1>>
      [] src = <<ch_star>> -> <<0, -1>>
      [] src = <<ch_plus>> -> <<1, -1>>
      [] OTHER ->
           LET body == RepBody(src)
           IN  IF Commas(body) = {}
               THEN <<DecimalValue(body), DecimalValue(body)>>
               ELSE <<DecimalValue(RepNPart(body)),
                      IF RepMPart(body) = <<>> THEN -1 ELSE DecimalValue(RepMPart(body))>>

ValidBounds(n, m) == n >= 0 /\ (m = -1 \/ m >= n) /\ (n = 0 => m # 0)

\* the first Next() call of Lexer i was made and consumed the whole reader
FirstCallDone(i) ==
    /\ results[i].status \in {"return", "panic"}
    /\ results[i].from = 0

IsRepetitionToken(i) == Returned(i) /\ results[i].token.typ = Repetition

\* C2: every Repetition token has n >= 0, (m = -1 or m >= n) and
\* (n = 0 implies m # 0); every braced form that would violate this, and {}
\* and {,}, makes Next() panic with ErrRepetitionForm.
C2_RepetitionBounds ==
    \A i \in Lexers :
        /\ IsRepetitionToken(i)
           => ValidBounds(results[i].token.n, results[i].token.m)
        /\ FirstCallDone(i) /\ IsBraced(lexers[i].input)
           /\ (~IsBracedNotation(lexers[i].input)
               \/ ~ValidBounds(NotationBounds(lexers[i].input)[1],
                               NotationBounds(lexers[i].input)[2]))
           => Panicked(i, ErrRepetitionForm)

\* one of the seven notations is the whole reader of Lexer i and the first
\* Next() call was made
NotationLexed(i) ==
    /\ FirstCallDone(i)
    /\ IsShorthand(lexers[i].input) \/ IsBracedNotation(lexers[i].input)

\* a Repetition token with the bounds of the notation and the source text
NotationToken(i) ==
    /\ IsRepetitionToken(i)
    /\ <<results[i].token.n, results[i].token.m>> = NotationBounds(lexers[i].input)
    /\ results[i].token.token = lexers[i].input
    /\ results[i].token.formattedToken = lexers[i].input

ZeroForm(src) ==
    /\ IsBracedNotation(src)
    /\ \/ Commas(RepBody(src)) = {} /\ DecimalValue(RepBody(src)) = 0
       \/ /\ Commas(RepBody(src)) # {}
          /\ RepMPart(RepBody(src)) # <<>>
          /\ DecimalValue(RepMPart(RepBody(src))) = 0

MaxCommentLen == 6

CommentAlphabet == {ch_slash, ch_star, ch_a, ch_lf}

CommentShape(s, c) ==
    IF s = <<>> THEN c = ch_slash
    ELSE c \in CommentAlphabet /\ Len(s) < MaxCommentLen

FeedComment == \E c \in CommentAlphabet :
                   CommentShape(lexers[1].input, c) /\ Feed(1, <<c>>)

NextComment == NewLexer(1) \/ FeedComment \/ LexerNext(1)

SpecComment == Init /\ [][NextComment]_vars

\* the places k >= 3 where a line comment ends (CR or LF) or a multi-line
\* comment ends (the '*' of a "*/")
LineEnds(src) == {k \in 3 .. Len(src) : src[k] \in {ch_cr, ch_lf}}

StarSlashes(src) == {k \in 3 .. Len(src) - 1 : src[k] = ch_star /\ src[k + 1] = ch_slash}

Least(S) == CHOOSE k \in S : \A j \in S : k <= j

IsCommentToken(i, body) ==
    /\ Returned(i)
    /\ results[i].token.typ = Comment
    /\ results[i].token.token = body
    /\ results[i].token.formattedToken = body

\* C3: a comment is // through end-of-line or /* through the first
\* subsequent */; Next() returns a Comment token whose Token() and String()
\* are the characters between the opener and the terminator, whatever the
\* body of a multi-line comment ends in.
C3_CommentBody ==
    \A i \in Lexers :
        LET src == lexers[i].input
        IN  /\ FirstCallDone(i) /\ Len(src) >= 2
               /\ src[1] = ch_slash /\ src[2] = ch_slash /\ LineEnds(src) # {}
               => IsCommentToken(i, SubSeq(src, 3, Least(LineEnds(src)) - 1))
            /\ FirstCallDone(i) /\ Len(src) >= 2
               /\ src[1] = ch_slash /\ src[2] = ch_star /\ StarSlashes(src) # {}
               => /\ IsCommentToken(i, SubSeq(src, 3, Least(StarSlashes(src)) - 1))
                  /\ lexers[i].pos = Least(StarSlashes(src)) + 1

\* ------------------------------------------------------------------------
\* Readers holding an identifier
\* ------------------------------------------------------------------------
MaxIdentifierLen == 4

IdentifierAlphabet == {ch_a, ch_Z, ch_9, ch_underscore, ch_dash, ch_space, ch_semi}

IdentifierShape(s, c) ==
    IF s = <<>> THEN c \in {ch_a, ch_Z}
    ELSE c \in IdentifierAlphabet /\ Len(s) < MaxIdentifierLen

FeedIdentifier == \E c \in IdentifierAlphabet :
                      IdentifierShape(lexers[1].input, c) /\ Feed(1, <<c>>)

NextIdentifier == NewLexer(1) \/ FeedIdentifier \/ LexerNext(1)

SpecIdentifier == Init /\ [][NextIdentifier]_vars

\* the characters the documentation allows after the first letter
DocIdentifierChars ==
    (ch_A .. ch_Z) \cup (ch_a .. ch_z) \cup (ch_0 .. ch_9) \cup {ch_underscore, ch_dash}

\* the places where a character outside the identifier set follows
IdentifierEnds(src) == {k \in 2 .. Len(src) : src[k] \notin DocIdentifierChars}

\* C4: an Identifier token is one ASCII letter followed by the longest run
\* of [A-Za-z0-9_-]; the first character outside that set ends the token,
\* is pushed back and is the first character the next Next() call examines.
C4_IdentifierChars ==
    \A i \in Lexers :
        LET src == lexers[i].input
        IN  FirstCallDone(i) /\ src # <<>> /\ src[1] \in (ch_A .. ch_Z) \cup (ch_a .. ch_z)
            /\ IdentifierEnds(src) # {}
            => /\ Returned(i)
               /\ results[i].token.typ = Identifier
               /\ results[i].token.token = SubSeq(src, 1, Least(IdentifierEnds(src)) - 1)
               /\ lexers[i].pos = Least(IdentifierEnds(src)) - 1

\* ------------------------------------------------------------------------
\* Readers holding a string or a character range with escapes
\* ------------------------------------------------------------------------
MaxTerminalContent == 3

TerminalAlphabet ==
    {ch_squote, ch_dquote, ch_backslash, ch_cbracket, ch_t, ch_r, ch_n, ch_x}

\* the character that closes what the opener opens
Closer(opener) == IF opener = ch_obracket THEN ch_cbracket ELSE opener

\* a quote or '[', at most MaxTerminalContent further characters and the
\* closing character; nothing follows the unescaped closing character
TerminalShape(s, c) ==
    IF s = <<>> THEN c \in {ch_squote, ch_dquote, ch_obracket}
    ELSE /\ c \in TerminalAlphabet
         /\ ~EndsUnescaped(s, Closer(s[1]))
         /\ \/ c = Closer(s[1]) /\ TrailingBackslashes(s) % 2 = 0
            \/ Len(s) - 1 < MaxTerminalContent

FeedTerminal == \E c \in TerminalAlphabet \cup {ch_obracket} :
                    TerminalShape(lexers[1].input, c) /\ Feed(1, <<c>>)

NextTerminal == NewLexer(1) \/ FeedTerminal \/ LexerNext(1)

SpecTerminal == Init /\ [][NextTerminal]_vars

\* ------------------------------------------------------------------------
\* Escapes, as the documentation states them
\* ------------------------------------------------------------------------
CommonEscapes == {ch_backslash, ch_t, ch_r, ch_n}

StringEscapes == CommonEscapes \cup {ch_squote, ch_dquote}

RangeEscapes == CommonEscapes \cup {ch_cbracket}

AcceptedEscapes(opener) == IF opener = ch_obracket THEN RangeEscapes ELSE StringEscapes

RECURSIVE ScanTerminal(_, _)
\* read src from place k on, a backslash and the character after it as one
\* unit: the first unescaped closing character ("closed"), the first
\* backslash followed by a character that is not an accepted escape
\* ("escape"), or the end of the text ("open")
ScanTerminal(src, k) ==
    IF k > Len(src) THEN [kind |-> "open", at |-> k]
    ELSE IF src[k] = ch_backslash
    THEN IF k + 1 > Len(src) THEN [kind |-> "open", at |-> k]
         ELSE IF src[k + 1] \in AcceptedEscapes(src[1])
         THEN ScanTerminal(src, k + 2)
         ELSE [kind |-> "escape", at |-> k]
    ELSE IF src[k] = Closer(src[1]) THEN [kind |-> "closed", at |-> k]
    ELSE ScanTerminal(src, k + 1)

IsQuoted(src) == src # <<>> /\ src[1] \in {ch_squote, ch_dquote}

IsBracketed(src) == src # <<>> /\ src[1] = ch_obracket

MaxOptionPieces == 3

\* the seven spellings, ':' alone, an uppercase letter, and three characters
\* that end an option word
OptionPieces ==
    {optionStrings[k] : k \in 1 .. Len(optionStrings)}
        \cup {<<ch_colon>>, <<ch_X>>, <<ch_space>>, <<ch_a>>, <<ch_semi>>}

FeedOption == \E t \in OptionPieces :
                  lexers[1].pieces < MaxOptionPieces /\ Feed(1, t)

NextOption == NewLexer(1) \/ FeedOption \/ LexerNext(1)

SpecOption == Init /\ [][NextOption]_vars

\* a Next() call of Lexer i was made; its first significant character is at
\* place CallStart(i) + 1 of the reader
CallDone(i) == results[i].status \in {"return", "panic"}

CallStart(i) == SkipWhitespace(lexers[i].input, results[i].from)

\* the places after place p where a character other than A-Z follows
WordEnds(src, p) == {k \in p + 1 .. Len(src) : src[k] \notin ch_A .. ch_Z}

SpellingIndexes(word) == {j \in 0 .. Len(optionStrings) - 1 : optionStrings[j + 1] = word}

MaxTokenPieces == 3

TokenPieces ==
    { <<ch_space>>, <<ch_lf>>, <<ch_a>>, optionStrings[1],
      <<ch_squote, ch_a>>, <<ch_squote>>, <<ch_obracket, ch_a>>, <<ch_cbracket>>,
      <<ch_obrace, ch_1>>, <<ch_cbrace>>, <<ch_slash>>, <<ch_slash, ch_star>>,
      <<ch_star>>, <<ch_equals>>, <<ch_semi>> }

FeedToken == \E t \in TokenPieces :
                 lexers[1].pieces < MaxTokenPieces /\ Feed(1, t)

NextTokens == NewLexer(1) \/ FeedToken \/ LexerNext(1)

SpecTokens == Init /\ [][NextTokens]_vars

\* what the latest Next() call of Lexer i had before it: the reader from
\* the cursor on, and the same from the first significant character on
CallRest(i) == SubSeq(lexers[i].input, results[i].from + 1, Len(lexers[i].input))

CallText(i) == SubSeq(lexers[i].input, CallStart(i) + 1, Len(lexers[i].input))

OnlyWhitespace(s) == \A k \in 1 .. Len(s) : s[k] \in {ch_space, ch_tab, ch_cr, ch_lf}

\* texts that begin a token and end before the token is complete
IdentifierToEnd(s) ==
    /\ s # <<>> /\ s[1] \in (ch_A .. ch_Z) \cup (ch_a .. ch_z)
    /\ \A k \in 2 .. Len(s) :
          s[k] \in (ch_A .. ch_Z) \cup (ch_a .. ch_z) \cup (ch_0 .. ch_9) \cup {ch_underscore}

OptionToEnd(s) ==
    s # <<>> /\ s[1] = ch_colon /\ \A k \in 2 .. Len(s) : s[k] \in ch_A .. ch_Z

UnterminatedString(s) == IsQuoted(s) /\ ScanTerminal(s, 2).kind = "open"

UnterminatedRange(s) ==
    /\ IsBracketed(s) /\ ScanTerminal(s, 2).kind = "open"
    /\ \A k \in 2 .. Len(s) : s[k] # ch_dash

UnterminatedRepetition(s) ==
    /\ s # <<>> /\ s[1] = ch_obrace
    /\ Cardinality(Commas(s)) <= 1
    /\ \A k \in 2 .. Len(s) : s[k] \in (ch_0 .. ch_9) \cup {ch_comma}

UnterminatedComment(s) ==
    /\ Len(s) >= 2 /\ s[1] = ch_slash
    /\ \/ s[2] = ch_slash /\ LineEnds(s) = {}
       \/ s[2] = ch_star /\ StarSlashes(s) = {}

\* C5: Next() returns an EOF token, with empty texts, exactly when the input
\* is exhausted and only whitespace was read since the last token; when the
\* input is exhausted after a token has started (an Identifier or option
\* followed by the end of input, an unterminated string, range, braced
\* repetition or comment) it panics with ErrUnexpectedEOF.
C5_EndOfInput ==
    \A i \in Lexers :
        CallDone(i)
        => /\ (Returned(i) /\ results[i].token.typ = EOF) <=> OnlyWhitespace(CallRest(i))
           /\ Returned(i) /\ results[i].token.typ = EOF
              => /\ results[i].token.token = <<>>
                 /\ results[i].token.formattedToken = <<>>
                 /\ lexers[i].pos = Len(lexers[i].input)
           /\ Panicked(i, ErrUnexpectedEOF)
              => ~OnlyWhitespace(CallRest(i)) /\ lexers[i].pos = Len(lexers[i].input)
           /\ \/ IdentifierToEnd(CallText(i))
              \/ OptionToEnd(CallText(i))
              \/ UnterminatedString(CallText(i))
              \/ UnterminatedRange(CallText(i))
              \/ UnterminatedRepetition(CallText(i))
              \/ UnterminatedComment(CallText(i))
              => Panicked(i, ErrUnexpectedEOF)

\* "; a": the second call met the end of input after the Identifier started
C5_Witness ==
    /\ lexers[1].input = <<ch_semi, ch_space, ch_a>>
    /\ results[1].from = 1
    /\ Panicked(1, ErrUnexpectedEOF)

\* ------------------------------------------------------------------------
\* Readers holding '=' signs among other tokens
\* ------------------------------------------------------------------------
MaxSymbolsLen == 4

SymbolAlphabet == {ch_equals, ch_semi, ch_space, ch_a}

FeedSymbol == \E c \in SymbolAlphabet :
                  Len(lexers[1].input) < MaxSymbolsLen /\ Feed(1, <<c>>)

NextSymbols == NewLexer(1) \/ FeedSymbol \/ LexerNext(1)

SpecSymbols == Init /\ [][NextSymbols]_vars

IsToken(i, typ, text) ==
    /\ Returned(i)
    /\ results[i].token.typ = typ
    /\ results[i].token.token = text
    /\ results[i].token.formattedToken = text

TripleEqualsSemi == <<ch_equals, ch_equals, ch_equals, ch_semi>>

\* C11: at an '=', a following '=' gives one DoubleEquals token "=="; any
\* other following character gives Equals "=" and stays in the reader as
\* the first character of the next token.  The cursor moves by exactly the
\* characters of the token, so "===;" is DoubleEquals, Equals, SemiColon.
C11_EqualsLongestMatch ==
    \A i \in Lexers :
        LET src == lexers[i].input
            p == CallStart(i) + 1
        IN  /\ CallDone(i) /\ p + 1 <= Len(src) /\ src[p] = ch_equals
               => IF src[p + 1] = ch_equals
                  THEN IsToken(i, DoubleEquals, <<ch_equals, ch_equals>>)
                       /\ lexers[i].pos = p + 1
                  ELSE IsToken(i, Equals, <<ch_equals>>) /\ lexers[i].pos = p
            /\ Returned(i) => results[i].token.formattedToken = TokenSource(i)
            /\ CallDone(i) /\ src = TripleEqualsSemi
               => \/ results[i].from = 0 /\ IsToken(i, DoubleEquals, <<ch_equals, ch_equals>>)
                  \/ results[i].from = 2 /\ IsToken(i, Equals, <<ch_equals>>)
                  \/ results[i].from = 3 /\ IsToken(i, SemiColon, <<ch_semi>>)
                  \/ results[i].from = 4 /\ IsToken(i, EOF, <<>>)

\* "===;": the third call, from the pushed-back ';', returned SemiColon
C11_Witness ==
    /\ lexers[1].input = TripleEqualsSemi
    /\ results[1].from = 3
    /\ IsToken(1, SemiColon, <<ch_semi>>)

\* ------------------------------------------------------------------------
\* The X-Y range specifications of a character range
\* ------------------------------------------------------------------------
RECURSIVE RangeSpecs(_)
\* the pairs <<X, Y>> of the X-Y specifications of a decoded range content,
\* read left to right as the dash policy reads it
RangeSpecs(u) ==
    IF u = <<>> THEN {}
    ELSE IF Len(u) >= 3 /\ u[2] = ch_dash
    THEN {<<u[1], u[3]>>} \cup RangeSpecs(SubSeq(u, 4, Len(u)))
    ELSE RangeSpecs(Tail(u))

\* the content of a range text after '[' or '[^', up to place last
RangeContent(text, last) ==
    SubSeq(text, IF Len(text) >= 2 /\ text[2] = ch_hat THEN 3 ELSE 2, last)

OutOfOrderSpecs(content) == {p \in RangeSpecs(Unescaped(content)) : p[1] > p[2]}

\* C12: a character range whose escapes are valid panics with
\* ErrCharacterRangeOutOfOrder if and only if one of its X-Y specifications
\* has X > Y by codepoint; the panic happens at that Y; a range whose
\* specifications all have X <= Y, X = Y included, is accepted.
C12_RangeOutOfOrder ==
    \A i \in Lexers :
        LET text == CallText(i)
            end == ScanTerminal(text, 2)
        IN  /\ CallDone(i) /\ IsBracketed(text) /\ end.kind = "closed"
               => (Panicked(i, ErrCharacterRangeOutOfOrder)
                     <=> OutOfOrderSpecs(RangeContent(text, end.at - 1)) # {})
            /\ CallDone(i) /\ Panicked(i, ErrCharacterRangeOutOfOrder)
               => LET read == Unescaped(RangeContent(TokenSource(i), Len(TokenSource(i))))
                  IN  /\ Len(read) >= 3
                      /\ read[Len(read) - 1] = ch_dash
                      /\ read[Len(read) - 2] > read[Len(read)]
                      /\ <<read[Len(read) - 2], read[Len(read)]>> \in RangeSpecs(read)
            /\ CallDone(i) /\ Returned(i) /\ results[i].token.typ = CharacterRange
               => /\ OutOfOrderSpecs(RangeContent(TokenSource(i), Len(TokenSource(i)) - 1)) = {}
                  /\ \A p \in RangeSpecs(Unescaped(RangeContent(TokenSource(i), Len(TokenSource(i)) - 1))) :
                        (p[1] .. p[2]) \subseteq TokenRange(results[i].token, uselessChars)

\* "[a-^]": the call stopped at '^', which is before 'a'
C12_Witness ==
    /\ lexers[1].input = <<ch_obracket, ch_a, ch_dash, ch_hat, ch_cbracket>>
    /\ Panicked(1, ErrCharacterRangeOutOfOrder)
    /\ lexers[1].pos = 4

\* text begins with the characters of prefix
StartsWith(text, prefix) ==
    Len(text) >= Len(prefix) /\ SubSeq(text, 1, Len(prefix)) = prefix

EmptyBrackets == <<ch_obracket, ch_cbracket>>

EmptyInverted == <<ch_obracket, ch_hat, ch_cbracket>>

\* C13: "[]" panics with ErrCharacterRangeEmpty (and nothing else does),
\* "[^]" returns an inverted CharacterRange token, and every CharacterRange
\* token that is not inverted has a non-empty Range().
C13_EmptyRange ==
    \A i \in Lexers :
        /\ CallDone(i)
           => (Panicked(i, ErrCharacterRangeEmpty) <=> StartsWith(CallText(i), EmptyBrackets))
        /\ CallDone(i) /\ StartsWith(CallText(i), EmptyInverted)
           => /\ IsRangeToken(i, TRUE)
              /\ results[i].token.token = EmptyInverted
              /\ results[i].token.formattedToken = EmptyInverted
              /\ lexers[i].pos = CallStart(i) + 3
        /\ IsRangeToken(i, FALSE) => TokenRange(results[i].token, uselessChars) # {}

\* "[^]" was accepted as an inverted range
C13_Witness ==
    /\ lexers[1].input = EmptyInverted
    /\ IsRangeToken(1, TRUE)
    /\ results[1].token.token = EmptyInverted

\* ------------------------------------------------------------------------
\* Several Lexers in one process, their Next() calls in any order, and
\* Terminals built from the tokens
\* ------------------------------------------------------------------------
MaxSharedPieces == 3

\* "[^a]", "[^]", "[a]" and "'a'"
SharedPieces ==
    { <<ch_obracket, ch_hat, ch_a, ch_cbracket>>, EmptyInverted,
      <<ch_obracket, ch_a, ch_cbracket>>, <<ch_squote, ch_a, ch_squote>> }

RECURSIVE PiecesUpTo(_)
\* the number of pieces given to the readers of Lexers 1 .. k
PiecesUpTo(k) == IF k = 0 THEN 0 ELSE lexers[k].pieces + PiecesUpTo(k - 1)

\* the Lexers are constructed one after the other
NewLexerInOrder == created + 1 \in Lexers /\ NewLexer(created + 1)

FeedShared == \E i \in Lexers : \E t \in SharedPieces :
                  PiecesUpTo(NumLexers) < MaxSharedPieces /\ Feed(i, t)

\* a Terminal built from the latest token of Lexer i: OfTerminalString from
\* a String token's String() and Token(), OfTerminalRange from a
\* CharacterRange token's String() and Range()
TerminalOfToken(i) ==
    /\ Returned(i)
    /\ results[i].token.typ \in {String, CharacterRange}
    /\ LET tok == results[i].token
       IN  nodes' = IF tok.typ = String
                    THEN [node |-> OfTerminalString(tok.formattedToken, tok.token),
                          call |-> [sourceString |-> tok.formattedToken,
                                    op |-> "OfTerminalString"]]
                    ELSE [node |-> OfTerminalRange(tok.formattedToken, tok.charRange),
                          call |-> [sourceString |-> tok.formattedToken,
                                    op |-> "OfTerminalRange"]]
    /\ UNCHANGED <<uselessChars, lexers, results, created, rendered, parsed, tableLexer>>

NextShared ==
    \/ NewLexerInOrder
    \/ FeedShared
    \/ \E i \in Lexers : LexerNext(i)
    \/ \E i \in Lexers : TerminalOfToken(i)

SpecShared == Init /\ [][NextShared]_vars

RECURSIVE AloneRun(_, _, _, _, _)
\* what the Next() call at cursor from returns when a Lexer over input is
\* the only Lexer of a fresh process: its calls one after the other from
\* the start of the input
AloneRun(input, pos, lineNumber, useless, from) ==
    LET r == LexerNextRun(input, pos, lineNumber, useless)
    IN  IF pos = from \/ r.status # "return" \/ r.pos = pos
        THEN r
        ELSE AloneRun(input, r.pos, r.lineNumber, r.uselessChars, from)

\* the latest call of Lexer i gave what it gives alone
SameAsAlone(i) ==
    LET a == AloneRun(lexers[i].input, 0, 1, UselessInit, results[i].from)
        tok == results[i].token
    IN  /\ results[i].status = a.status
        /\ results[i].err = a.err
        /\ lexers[i].pos = a.pos
        /\ tok.typ = a.result.typ
        /\ tok.token = a.result.token
        /\ tok.formattedToken = a.result.formattedToken
        /\ tok.charRangeInverted = a.result.charRangeInverted
        /\ TokenRange(tok, uselessChars) = TokenRange(a.result, a.uselessChars)
        /\ tok.n = a.result.n /\ tok.m = a.result.m

\* C14: whatever Next() calls were made before on this or any other Lexer,
\* and in whatever order the calls of several Lexers are made, the latest
\* token of each Lexer (type, texts, range set, bounds), or its panic, is
\* what that call gives when the Lexer runs alone.
C14_LexersIndependent ==
    \A i \in Lexers : CallDone(i) => SameAsAlone(i)

\* a CharacterRange token is held as the latest result of Lexer i
HoldsRangeToken(i) == Returned(i) /\ results[i].token.typ = CharacterRange

\* a Terminal built with OfTerminalRange is held
HoldsRangeTerminal == nodes.call.op = "OfTerminalRange"

\* C15: a step that leaves a returned CharacterRange token, or a Terminal
\* built from one with OfTerminalRange, in the hands of its holder does not
\* change the set its Range(), or TerminalRange(), returns.
C15_HandedOutRangesFixed ==
    [][/\ \A i \in Lexers :
             (HoldsRangeToken(i) /\ results'[i] = results[i])
             => TokenRange(results[i].token, uselessChars')
                  = TokenRange(results[i].token, uselessChars)
       /\ (HoldsRangeTerminal /\ nodes' = nodes)
          => TerminalRange(nodes.node, uselessChars')
               = TerminalRange(nodes.node, uselessChars)]_vars

\* ------------------------------------------------------------------------
\* Terminals built from the String and CharacterRange tokens of one Lexer
\* ------------------------------------------------------------------------
MaxTerminalPieces == 2

\* the empty strings '' and "", and the strings and ranges of SharedPieces
TerminalPieces ==
    SharedPieces \cup {<<ch_squote, ch_squote>>, <<ch_dquote, ch_dquote>>}

FeedTerminalPiece == \E t \in TerminalPieces :
                         lexers[1].pieces < MaxTerminalPieces /\ Feed(1, t)

NextTerminalNodes ==
    NewLexer(1) \/ FeedTerminalPiece \/ LexerNext(1) \/ TerminalOfToken(1)

SpecTerminalNodes == Init /\ [][NextTerminalNodes]_vars

\* C16: a Terminal built with OfTerminalString from a String token, the
\* empty strings '' and "" included, has IsString() and not IsRange(); a
\* Terminal built with OfTerminalRange from a CharacterRange token has
\* IsRange() and not IsString().
C16_TerminalOneKind ==
    /\ nodes.call.op = "OfTerminalString"
       => IsString(nodes.node) /\ ~IsRange(nodes.node, uselessChars)
    /\ nodes.call.op = "OfTerminalRange"
       => IsRange(nodes.node, uselessChars) /\ ~IsString(nodes.node)

\* ------------------------------------------------------------------------
\* AST nodes built by their constructors, bottom up: each composite node
\* takes the node built last as its child
\* ------------------------------------------------------------------------
MaxNodeText == 1

\* source texts, strings and names: "", "a", "aa", ...
NodeTexts == {[k \in 1 .. n |-> ch_a] : n \in 0 .. MaxNodeText}

NodeOptions == {<<>>, <<OptionEOL, OptionIndent>>}

\* a map of the caller, and the map an inverted range token refers to
NodeRanges == {OwnMap({ch_a}), GlobalMap}

NodeBounds == {<<1, 1>>, <<0, -1>>}

Built(node, call) ==
    /\ nodes' = [node |-> node, call |-> call]
    /\ UNCHANGED <<uselessChars, lexers, results, created, rendered, parsed, tableLexer>>

BuildTerminalString ==
    \E s \in NodeTexts, t \in NodeTexts :
        Built(OfTerminalString(s, t), [sourceString |-> s, op |-> "OfTerminalString"])

BuildTerminalRange ==
    \E s \in NodeTexts, r \in NodeRanges :
        Built(OfTerminalRange(s, r), [sourceString |-> s, op |-> "OfTerminalRange"])

BuildListItemRuleName ==
    \E s \in NodeTexts, name \in NodeTexts, options \in NodeOptions :
        Built(OfListItemRuleName(s, name, options),
              [sourceString |-> s, ruleName |-> name,
               options |-> options, op |-> "OfListItemRuleName"])

BuildListItemTerminal ==
    /\ nodes.node.type = "Terminal"
    /\ \E s \in NodeTexts, options \in NodeOptions :
          Built(OfListItemTerminal(s, nodes.node, options),
                [sourceString |-> s, options |-> options,
                 op |-> "OfListItemTerminal", given |-> nodes.node])

BuildExpressionItem ==
    /\ nodes.node.type = "ListItem"
    /\ \E s \in NodeTexts, b \in NodeBounds :
          Built(OfExpressionItem(s, <<nodes.node>>, b[1], b[2]),
                [sourceString |-> s, op |-> "OfExpressionItem"])

BuildExpression ==
    /\ nodes.node.type = "ExpressionItem"
    /\ \E s \in NodeTexts :
          Built(OfExpression(s, <<nodes.node>>),
                [sourceString |-> s, op |-> "OfExpression"])

BuildRule ==
    /\ nodes.node.type = "Expression"
    /\ \E s \in NodeTexts, name \in NodeTexts :
          Built(OfRule(s, name, nodes.node), [sourceString |-> s, op |-> "OfRule"])

BuildGrammar ==
    /\ nodes.node.type = "Rule"
    /\ \E s \in NodeTexts :
          Built(OfGrammar(s, <<nodes.node>>), [sourceString |-> s, op |-> "OfGrammar"])

NextNodes ==
    \/ BuildTerminalString
    \/ BuildTerminalRange
    \/ BuildListItemRuleName
    \/ BuildListItemTerminal
    \/ BuildExpressionItem
    \/ BuildExpression
    \/ BuildRule
    \/ BuildGrammar

SpecNodes == Init /\ [][NextNodes]_vars

\* C17: for every ListItem exactly one of IsRuleName() and IsTerminal() is
\* true; OfListItemRuleName with a non-empty name gives a rule reference
\* with that name and the zero Terminal; OfListItemTerminal gives a terminal
\* item with that Terminal and an empty RuleName(); whatever the options.
C17_ListItemOneKind ==
    LET itm == nodes.node
    IN  /\ itm.type = "ListItem" => (IsRuleName(itm) <=> ~IsTerminal(itm))
        /\ nodes.call.op = "OfListItemRuleName" /\ nodes.call.ruleName # <<>>
           => /\ IsRuleName(itm) /\ ~IsTerminal(itm)
              /\ RuleName(itm) = nodes.call.ruleName
              /\ ListItemTerminal(itm) = ZeroTerminal
        /\ nodes.call.op = "OfListItemTerminal"
           => /\ IsTerminal(itm) /\ ~IsRuleName(itm)
              /\ RuleName(itm) = <<>>
              /\ ListItemTerminal(itm) = nodes.call.given

\* a terminal item with options, its Terminal an empty string
C17_Witness ==
    /\ nodes.call.op = "OfListItemTerminal"
    /\ nodes.call.options # <<>>
    /\ TerminalString(ListItemTerminal(nodes.node)) = <<>>
    /\ IsTerminal(nodes.node)

\* C18: String() of every node is the source string its constructor was
\* given, whatever the other arguments.
C18_VerbatimSource ==
    nodes.call.op # "none" => SourceNodeString(nodes.node) = nodes.call.sourceString

\* a Grammar whose source text is not that of its Rule
C18_Witness ==
    /\ nodes.call.op = "OfGrammar"
    /\ SourceNodeString(nodes.node) = <<ch_a>>
    /\ SourceNodeString(nodes.node.rules[1]) = <<>>

\* ------------------------------------------------------------------------
\* The raw text of a token and the source slice it was read from
\* ------------------------------------------------------------------------
\* C19 as stated: String() of every returned token, a Comment included, is
\* the source slice consumed for it after the skipped whitespace.
C19_RawTextIsSource ==
    \A i \in Lexers :
        Returned(i) => results[i].token.formattedToken = TokenSource(i)

\* C19 amended: String() of every returned token other than a Comment is
\* the source slice consumed for it after the skipped whitespace; String()
\* of a Comment equals its Token() and is shorter than the slice by at
\* least the opener and the terminator.
C19_RawTextExceptComment ==
    \A i \in Lexers :
        /\ Returned(i) /\ results[i].token.typ # Comment
           => results[i].token.formattedToken = TokenSource(i)
        /\ Returned(i) /\ results[i].token.typ = Comment
           => /\ results[i].token.formattedToken = results[i].token.token
              /\ TokenSource(i)[1] = ch_slash
              /\ Len(TokenSource(i)) >= Len(results[i].token.formattedToken) + 3

\* " 'a'": after the skipped space the String token's raw text is 'a' with
\* its quotes
C19_Witness ==
    /\ lexers[1].input = <<ch_space, ch_squote, ch_a, ch_squote>>
    /\ Returned(1)
    /\ results[1].token.typ = String
    /\ results[1].token.formattedToken = <<ch_squote, ch_a, ch_squote>>
    /\ lexers[1].pos = 4

\* C20: the CR or LF that ends a '//' comment is not consumed: after the
\* Comment token is returned the cursor is before it.
C20_LineCommentLeavesEOL ==
    \A i \in Lexers :
        LET src == lexers[i].input
        IN  FirstCallDone(i) /\ StartsWith(src, <<ch_slash, ch_slash>>) /\ LineEnds(src) # {}
            => /\ Returned(i)
               /\ results[i].token.typ = Comment
               /\ lexers[i].pos = Least(LineEnds(src)) - 1

\* ------------------------------------------------------------------------
\* Whitespace between tokens
\* ------------------------------------------------------------------------
MaxInserted == 1

RECURSIVE WhitespaceRunsOf(_)
\* the runs of k whitespace characters
WhitespaceRunsOf(k) ==
    IF k = 0 THEN { <<>> }
    ELSE { <<c>> \o w : c \in {ch_space, ch_tab, ch_cr, ch_lf}, w \in WhitespaceRunsOf(k - 1) }

WhitespaceRuns == UNION { WhitespaceRunsOf(k) : k \in 1 .. MaxInserted }

RECURSIVE TokenCalls(_, _, _, _)
\* the Next() calls of a Lexer over input, one after the other from cursor
\* pos until one returns EOF or panics: for each call the cursor before it
\* and its outcome
TokenCalls(input, pos, lineNumber, useless) ==
    LET r == LexerNextRun(input, pos, lineNumber, useless)
        call == [from |-> pos, run |-> r]
    IN  IF r.status # "return" \/ r.result.typ = EOF \/ r.pos = pos
        THEN << call >>
        ELSE << call >> \o TokenCalls(input, r.pos, r.lineNumber, r.uselessChars)

\* the calls of a Lexer over input in a fresh process
Tokenize(input) == TokenCalls(input, 0, 1, UselessInit)

TokenizesWithoutError(calls) ==
    /\ \A k \in 1 .. Len(calls) : calls[k].run.status = "return"
    /\ calls[Len(calls)].run.result.typ = EOF

\* what the caller has after the calls: of each token the type, both
\* texts, the inverted flag, the range set and the bounds
TokenSequence(calls) ==
    LET useless == calls[Len(calls)].run.uselessChars
    IN  [k \in 1 .. Len(calls) |->
            LET tok == calls[k].run.result
            IN  [typ |-> tok.typ, token |-> tok.token,
                 formattedToken |-> tok.formattedToken,
                 inverted |-> tok.charRangeInverted,
                 range |-> TokenRange(tok, useless),
                 n |-> tok.n, m |-> tok.m]]

\* the places between tokens: from the cursor a call starts at to the first
\* significant character after it (the start of the input, the boundary
\* between two tokens, the end of the input before EOF)
TokenBoundaries(input, calls) ==
    UNION { calls[k].from .. SkipWhitespace(input, calls[k].from) : k \in 1 .. Len(calls) }

Insert(input, q, w) == SubSeq(input, 1, q) \o w \o SubSeq(input, q + 1, Len(input))

\* the reader of Lexer 1 was tokenized to EOF by Next() calls
TokenizedToEOF == Returned(1) /\ results[1].token.typ = EOF

\* C21: when the Next() calls on a reader have returned tokens up to EOF,
\* the same reader with a run of space, tab, CR or LF inserted before the
\* first token or at a boundary between two tokens gives the same sequence
\* of tokens: types, texts, raw texts, inverted flags, range sets, bounds.
C21_WhitespaceInsignificant ==
    TokenizedToEOF =>
        LET input == lexers[1].input
            calls == Tokenize(input)
        IN  /\ TokenizesWithoutError(calls)
            /\ calls[Len(calls)].run.pos = lexers[1].pos
            /\ \A q \in TokenBoundaries(input, calls) : \A w \in WhitespaceRuns :
                   LET spaced == Tokenize(Insert(input, q, w))
                   IN  /\ TokenizesWithoutError(spaced)
                       /\ TokenSequence(spaced) = TokenSequence(calls)

\* "a=;" was tokenized: Identifier, Equals, SemiColon, EOF, with boundaries
\* between adjacent tokens
C21_Witness ==
    /\ TokenizedToEOF
    /\ lexers[1].input = <<ch_a, ch_equals, ch_semi>>
    /\ Len(Tokenize(lexers[1].input)) = 4

\* ------------------------------------------------------------------------
\* Pretty-printed Expressions
\* ------------------------------------------------------------------------
MaxAlternatives == 3

\* the widths of the rule names that stand as alternatives
AlternativeWidths == {1, 36, 72, 76, 77}

RuleNameOfWidth(w) == [k \in 1 .. w |-> ch_a]

\* an alternative that is one rule reference
RuleAlternative(w) ==
    LET name == RuleNameOfWidth(w)
    IN  OfExpressionItem(name, << OfListItemRuleName(name, name, << >>) >>, 1, 1)

\* an alternative that is the string terminal 'a | a'
BarStringAlternative ==
    LET value == <<ch_a, ch_space, ch_bar, ch_space, ch_a>>
        source == <<ch_squote>> \o value \o <<ch_squote>>
    IN  OfExpressionItem(source,
            << OfListItemTerminal(source, OfTerminalString(source, value), << >>) >>, 1, 1)

Alternatives == { RuleAlternative(w) : w \in AlternativeWidths } \cup { BarStringAlternative }

RECURSIVE JoinWith(_, _)
\* texts joined by a separator
JoinWith(texts, sep) ==
    IF Len(texts) = 0 THEN << >>
    ELSE IF Len(texts) = 1 THEN texts[1]
    ELSE texts[1] \o sep \o JoinWith(Tail(texts), sep)

\* a node is built, then pretty-printed
NothingBuilt == nodes = NoNode /\ rendered = NoRendering

BuildAlternatives ==
    /\ NothingBuilt
    /\ \E k \in 1 .. MaxAlternatives : \E items \in [1 .. k -> Alternatives] :
          LET source == JoinWith([j \in 1 .. k |-> SourceNodeString(items[j])],
                                 sameLineSeparator)
          IN  Built(OfExpression(source, items),
                    [sourceString |-> source, op |-> "OfExpression"])

\* String() of the node built last
RenderNode ==
    /\ nodes.node.type # "none"
    /\ rendered = NoRendering
    /\ rendered' = [text |-> Node_String(nodes.node), node |-> nodes.node, op |-> "String"]
    /\ UNCHANGED <<uselessChars, lexers, results, created, nodes, parsed, tableLexer>>

NextExpressions == BuildAlternatives \/ RenderNode

SpecExpressions == Init /\ [][NextExpressions]_vars

\* an Expression was pretty-printed
RenderedExpression == rendered.op = "String" /\ rendered.node.type = "Expression"

\* the pretty texts of the alternatives of an Expression
AlternativeTexts(e) == [k \in 1 .. Len(e.items) |-> ExpressionItem_String(e.items[k])]

HasInfix(s, infix) ==
    \E i \in 1 .. Len(s) - Len(infix) + 1 : SubSeq(s, i, i + Len(infix) - 1) = infix

\* no alternative holds " | " in its own text
PlainAlternatives(texts) ==
    \A k \in 1 .. Len(texts) : ~HasInfix(texts[k], sameLineSeparator)

OneLine(texts) == JoinWith(texts, sameLineSeparator)

MultiLine(texts) == JoinWith(texts, nextLineSeparator)

\* C22: an Expression whose alternatives joined by " | " make 80 columns or
\* more is rendered with every separator in the multi-line form, newline,
\* four spaces and "| "; a shorter one is rendered on one line.
C22_LongExpressionMultiLine ==
    RenderedExpression =>
        LET texts == AlternativeTexts(rendered.node)
        IN  PlainAlternatives(texts) =>
                IF Len(OneLine(texts)) >= 80
                THEN rendered.text = MultiLine(texts)
                ELSE rendered.text = OneLine(texts)

\* C30: in the pretty text of an Expression whose alternatives hold no " | "
\* themselves the separators are all " | " or all newline, four spaces and
\* "| ": the separators written before the switch are rewritten and no
\* separator after it is written in the one-line form.
C30_SeparatorsNeverMixed ==
    RenderedExpression =>
        LET texts == AlternativeTexts(rendered.node)
        IN  PlainAlternatives(texts) =>
                \/ rendered.text = OneLine(texts)
                \/ rendered.text = MultiLine(texts)

\* three plain alternatives, the line reaching 80 columns only at the
\* second separator, were rendered in the multi-line form
C30_Witness ==
    /\ RenderedExpression
    /\ LET texts == AlternativeTexts(rendered.node)
       IN  /\ Len(texts) = 3
           /\ PlainAlternatives(texts)
           /\ Len(texts[1]) + 3 < 80
           /\ Len(texts[1]) + 3 + Len(texts[2]) + 3 >= 80
           /\ rendered.text = MultiLine(texts)
           /\ rendered.text # OneLine(texts)

\* ------------------------------------------------------------------------
\* Pretty-printed ExpressionItems
\* ------------------------------------------------------------------------
MaxListItems == 2

MaxRepeat == 11

\* the rule reference a and the string terminal 'x' with the option :EOL
ListItemChoices ==
    { OfListItemRuleName(<<ch_a>>, <<ch_a>>, << >>),
      OfListItemTerminal(<<ch_squote, ch_x, ch_squote>> \o optionStrings[2],
                         OfTerminalString(<<ch_squote, ch_x, ch_squote>>, <<ch_x>>),
                         << OptionEOL >>) }

\* an ExpressionItem of some list items with some bounds, valid or not
BuildRepeatedItem ==
    /\ NothingBuilt
    /\ \E k \in 1 .. MaxListItems : \E list \in [1 .. k -> ListItemChoices] :
       \E n \in 0 .. MaxRepeat, m \in -1 .. MaxRepeat :
          LET source == JoinWith([j \in 1 .. k |-> SourceNodeString(list[j])], <<ch_space>>)
          IN  Built(OfExpressionItem(source, list, n, m),
                    [sourceString |-> source, op |-> "OfExpressionItem"])

NextExpressionItems == BuildRepeatedItem \/ RenderNode

SpecExpressionItems == Init /\ [][NextExpressionItems]_vars

\* an ExpressionItem was pretty-printed
RenderedExpressionItem == rendered.op = "String" /\ rendered.node.type = "ExpressionItem"

\* the pretty texts of the list items, space-separated
SpacedItems(itm) ==
    JoinWith([k \in 1 .. Len(itm.list) |-> ListItem_String(itm.list[k])], <<ch_space>>)

\* the shortest suffix of the bounds, as the documentation lists them
ShortestSuffix(n, m) ==
    IF n = 0 /\ m = 1 THEN <<ch_qmark>>
    ELSE IF n = 0 /\ m = -1 THEN <<ch_star>>
    ELSE IF n = 1 /\ m = -1 THEN <<ch_plus>>
    ELSE IF m = n THEN <<ch_obrace>> \o Itoa(n) \o <<ch_cbrace>>
    ELSE IF m = -1 THEN <<ch_obrace>> \o Itoa(n) \o <<ch_comma, ch_cbrace>>
    ELSE IF n = 0 THEN <<ch_obrace, ch_comma>> \o Itoa(m) \o <<ch_cbrace>>
    ELSE <<ch_obrace>> \o Itoa(n) \o <<ch_comma>> \o Itoa(m) \o <<ch_cbrace>>

\* C23: the pretty text of an ExpressionItem with valid bounds is its items
\* space-separated, bare when (n,m) = (1,1), and otherwise in parentheses
\* followed by the shortest suffix: ? for (0,1), * for (0,-1), + for (1,-1),
\* {n} for (n,n), {n,} for (n,-1), {,m} for (0,m), {n,m} for the rest.
C23_ExpressionItemSuffix ==
    RenderedExpressionItem =>
        LET itm == rendered.node
        IN  ValidBounds(itm.n, itm.m) =>
                rendered.text =
                    IF itm.n = 1 /\ itm.m = 1 THEN SpacedItems(itm)
                    ELSE <<ch_oparen>> \o SpacedItems(itm) \o <<ch_cparen>>
                             \o ShortestSuffix(itm.n, itm.m)

\* the rule reference a with the bounds (1,2) was rendered as "(a){1,2}"
C23_Witness ==
    /\ RenderedExpressionItem
    /\ rendered.node.n = 1 /\ rendered.node.m = 2
    /\ Len(rendered.node.list) = 1
    /\ rendered.text = <<ch_oparen, ch_a, ch_cparen, ch_obrace, ch_1, ch_comma, ch_2, ch_cbrace>>

\* ------------------------------------------------------------------------
\* Pretty-printed ListItems
\* ------------------------------------------------------------------------
MaxOptions == 2

\* the option types Next() can return
LexerOptions == OptionAST .. OptionPreOutdent

\* a ListItem that is the rule reference a, the string terminal 'x' or the
\* range terminal [a], with some options attached
BuildOptionItem ==
    /\ NothingBuilt
    /\ \E k \in 0 .. MaxOptions : \E options \in [1 .. k -> LexerOptions] :
          LET spelled == JoinWith([j \in 1 .. k |-> optionStrings[options[j] - OptionAST + 1]],
                                  << >>)
              quoted == <<ch_squote, ch_x, ch_squote>>
              bracketed == <<ch_obracket, ch_a, ch_cbracket>>
          IN  \/ Built(OfListItemRuleName(<<ch_a>> \o spelled, <<ch_a>>, options),
                       [sourceString |-> <<ch_a>> \o spelled,
                        ruleName |-> <<ch_a>>, options |-> options, op |-> "OfListItemRuleName"])
              \/ \E t \in { OfTerminalString(quoted, <<ch_x>>),
                            OfTerminalRange(bracketed, OwnMap({ch_a})) } :
                    Built(OfListItemTerminal(SourceNodeString(t) \o spelled, t, options),
                          [sourceString |-> SourceNodeString(t) \o spelled,
                           options |-> options,
                           op |-> "OfListItemTerminal", given |-> t])

NextListItems == BuildOptionItem \/ RenderNode

SpecListItems == Init /\ [][NextListItems]_vars

\* a ListItem was pretty-printed
RenderedListItem == rendered.op = "String" /\ rendered.node.type = "ListItem"

\* the spellings Next() accepts for the options, one after the other
CanonicalSpellings(options) ==
    JoinWith([j \in 1 .. Len(options) |-> optionStrings[options[j] - OptionAST + 1]], << >>)

\* C24: the pretty text of a ListItem is its rule name, or the pretty text
\* of its Terminal, directly followed by the spelling of each attached
\* option in the order of attachment, duplicates included, without spaces;
\* no option that Next() can return is left out or written as nothing.
C24_ListItemOptions ==
    RenderedListItem =>
        LET itm == rendered.node
        IN  rendered.text =
                (IF IsRuleName(itm) THEN RuleName(itm)
                 ELSE Terminal_String(ListItemTerminal(itm)))
                    \o CanonicalSpellings(itm.options)

\* ------------------------------------------------------------------------
\* Pretty-printed range Terminals, lexed again
\* ------------------------------------------------------------------------
\* a, b, c and x
RangeMembers == {ch_a, ch_a + 1, ch_a + 2, ch_x}

\* a Terminal over a map of the caller or over the map an inverted range
\* token refers to
BuildRangeTerminal ==
    /\ NothingBuilt
    /\ \E r \in { OwnMap(S) : S \in (SUBSET RangeMembers) \ { {} } } \cup { GlobalMap } :
          Built(OfTerminalRange(<< >>, r), [sourceString |-> << >>, op |-> "OfTerminalRange"])

\* the pretty text becomes the content of the reader of Lexer 1
FeedRendered ==
    /\ rendered.op = "String"
    /\ lexers[1].pieces = 0
    /\ Feed(1, rendered.text)

NextRangeTerminals ==
    \/ BuildRangeTerminal
    \/ RenderNode
    \/ NewLexer(1)
    \/ FeedRendered
    \/ LexerNext(1)

SpecRangeTerminals == Init /\ [][NextRangeTerminals]_vars

\* a range Terminal was pretty-printed and the first Next() call on its
\* pretty text was made
LexedRenderedRange ==
    /\ rendered.op = "String"
    /\ rendered.node.type = "Terminal"
    /\ ~IsString(rendered.node)
    /\ lexers[1].pieces = 1
    /\ FirstCallDone(1)

\* C25: the pretty text of a range Terminal is bracketed, and lexing it
\* gives a CharacterRange token whose set is the set of the Terminal.
C25_RangeRoundTrip ==
    LexedRenderedRange =>
        /\ Len(rendered.text) >= 2
        /\ Head(rendered.text) = ch_obracket
        /\ rendered.text[Len(rendered.text)] = ch_cbracket
        /\ Returned(1)
        /\ results[1].token.typ = CharacterRange
        /\ TokenRange(results[1].token, uselessChars)
               = TerminalRange(rendered.node, uselessChars)

\* ------------------------------------------------------------------------
\* The value a lexical error is reported with
\* ------------------------------------------------------------------------
\* the character at index j ends a line: LF, or CR not followed by LF
EndsLine(input, j) ==
    \/ input[j] = ch_lf
    \/ input[j] = ch_cr /\ ~(j < Len(input) /\ input[j + 1] = ch_lf)

\* the 1-based line and column of index k of the input, one past the end
\* included
LineAt(input, k) == 1 + Cardinality({ j \in 1 .. k - 1 : EndsLine(input, j) })

ColumnAt(input, k) ==
    LET ends == { j \in 1 .. k - 1 : EndsLine(input, j) }
    IN  k - (IF ends = {} THEN 0 ELSE CHOOSE j \in ends : \A e \in ends : e <= j)

\* the index of the character the latest call of Lexer i failed on: the
\* character read last, or the place just past the input at its end
OffendingIndex(i) ==
    IF results[i].err = ErrUnexpectedEOF THEN Len(lexers[i].input) + 1 ELSE lexers[i].pos

\* C26: the value a Next() call fails with is a structured value, not a
\* bare message: it carries the kind of the error, a message and the
\* 1-based line and column of the offending character; a string without
\* its closing quote is reported as UnexpectedEndOfInput at the place just
\* past the last character of the input.
C26_StructuredLexError ==
    results[1].status = "panic" =>
        LET value == results[1].err
            input == lexers[1].input
        IN  /\ value \notin STRING
            /\ value.message \in STRING
            /\ value.line = LineAt(input, OffendingIndex(1))
            /\ value.column = ColumnAt(input, OffendingIndex(1))
            /\ UnterminatedString(CallText(1)) =>
                   /\ value.kind = "UnexpectedEndOfInput"
                   /\ value.column = ColumnAt(input, Len(input) + 1)

\* C27: every Next() call ends, returning or panicking, with the cursor
\* between its place before the call and the end of the input; a call
\* that returns a token other than EOF leaves the cursor at least one
\* character further, pushback counted; so the calls on an input, one after
\* the other, end with EOF or a panic after at most as many calls as the
\* input has characters, plus one.
C27_CallsMakeProgress ==
    /\ CallDone(1) =>
           /\ results[1].from <= lexers[1].pos
           /\ lexers[1].pos <= Len(lexers[1].input)
           /\ Returned(1) /\ results[1].token.typ # EOF
                  => lexers[1].pos >= results[1].from + 1
    /\ results[1].status # "unborn" =>
           LET calls == Tokenize(lexers[1].input)
               last == calls[Len(calls)].run
           IN  /\ Len(calls) <= Len(lexers[1].input) + 1
               /\ last.status = "panic" \/ last.result.typ = EOF

\* a call returned an Identifier after it pushed back the character that
\* ended it, and a call returned an option after its pushback
C27_Witness ==
    /\ Returned(1)
    /\ results[1].token.typ \in {Identifier, OptionAST}
    /\ lexers[1].pos < Len(lexers[1].input)
    /\ lexers[1].pos = results[1].from + Len(results[1].token.formattedToken)

\* ------------------------------------------------------------------------
\* The grammar parser.  The repository declares the Parser (a struct around
\* a Lexer); parseGrammar and the functions under it are modelled on the
\* specification of the parser: LL(1), one rule at a time until EOF,
\* comments skipped, the first mismatch fatal.
\* ------------------------------------------------------------------------
\* the tokens the Parser can pull from its Lexer, comments left out: each
\* with the cursor before its call, the outcome of the call and the number
\* of the call
parserTokens(input, useless) ==
    LET calls == TokenCalls(input, 0, 1, useless)
        numbered == [j \in 1 .. Len(calls) |->
                        [from |-> calls[j].from, run |-> calls[j].run, call |-> j]]
        noComment(c) == ~(c.run.status = "return" /\ c.run.result.typ = Comment)
    IN  SelectSeq(numbered, noComment)

\* the type of token k, InvalidLexType when the Lexer panicked there
typeAt(cx, k) ==
    IF cx.toks[k].run.status = "return" THEN cx.toks[k].run.result.typ ELSE InvalidLexType

\* the source text from the first character of token k1 to the last of k2
sourceSlice(cx, k1, k2) ==
    SubSeq(cx.input, SkipWhitespace(cx.input, cx.toks[k1].from) + 1, cx.toks[k2].run.pos)

\* the parse stops at token k: a lexical error of the Lexer goes through,
\* any other token is a syntax error naming what was expected
parseFail(cx, k, expected) ==
    [ok |-> FALSE, k |-> k,
     err |-> IF cx.toks[k].run.status = "panic"
             THEN [kind |-> "LexicalError", at |-> k, message |-> cx.toks[k].run.err]
             ELSE [found |-> typeAt(cx, k), kind |-> "UnexpectedToken", at |-> k,
                   expected |-> expected]]

parseOk(k, node) == [ok |-> TRUE, k |-> k, node |-> node]

RECURSIVE terminalEnd(_, _)
\* the last of the adjacent String and CharacterRange tokens from k on
terminalEnd(cx, k) ==
    IF typeAt(cx, k + 1) \in {String, CharacterRange} THEN terminalEnd(cx, k + 1) ELSE k

\* parseTerminal: one or more adjacent String or CharacterRange tokens make
\* one Terminal, which has the kind and value of the first and the source
\* text of all
parseTerminal(cx, k) ==
    LET last == terminalEnd(cx, k)
        tok == cx.toks[k].run.result
        source == sourceSlice(cx, k, last)
    IN  parseOk(last + 1,
                IF tok.typ = String
                THEN OfTerminalString(source, tok.token)
                ELSE OfTerminalRange(source, tok.charRange))

RECURSIVE optionsEnd(_, _)
\* the last of the Option tokens that follow token k
optionsEnd(cx, k) ==
    IF typeAt(cx, k + 1) \in OptionAST .. OptionPreOutdent THEN optionsEnd(cx, k + 1) ELSE k

\* the list item that starts at token k, a rule name or a Terminal, and ends
\* at token last, the last of its options
listItemOf(cx, k, head, last) ==
    parseOk(last + 1,
            IF typeAt(cx, k) = Identifier
            THEN OfListItemRuleName(sourceSlice(cx, k, last), cx.toks[k].run.result.token,
                                    [j \in 1 .. last - head |-> typeAt(cx, head + j)])
            ELSE OfListItemTerminal(sourceSlice(cx, k, last), parseTerminal(cx, k).node,
                                    [j \in 1 .. last - head |-> typeAt(cx, head + j)]))

\* its options follow token head
listItemFrom(cx, k, head) == listItemOf(cx, k, head, optionsEnd(cx, head))

\* parseListItem: an Identifier or a Terminal, then the options in the
\* order met
parseListItem(cx, k) ==
    IF typeAt(cx, k) \notin {Identifier, String, CharacterRange}
    THEN parseFail(cx, k, {Identifier, String, CharacterRange})
    ELSE listItemFrom(cx, k, IF typeAt(cx, k) = Identifier THEN k ELSE terminalEnd(cx, k))

RECURSIVE parseList(_, _, _)
\* the list goes on with item, or ends before token k when no item starts
\* there
listWith(cx, k, items, first, item) ==
    IF ~item.ok
    THEN IF items # << >> /\ first = k THEN parseOk(k, items) ELSE item
    ELSE parseList(cx, item.k, Append(items, item.node))

\* the next item of a list starts at token first
listFrom(cx, k, items, first) == listWith(cx, k, items, first, parseListItem(cx, first))

\* parseList: one or more list items, adjacent or separated by a comma
parseList(cx, k, items) ==
    listFrom(cx, k, items, IF items # << >> /\ typeAt(cx, k) = Comma THEN k + 1 ELSE k)

\* parseRepetition: a Repetition token, or (1,1) when there is none
parseRepetition(cx, k) ==
    IF typeAt(cx, k) = Repetition
    THEN [k |-> k + 1, n |-> cx.toks[k].run.result.n, m |-> cx.toks[k].run.result.m]
    ELSE [k |-> k, n |-> 1, m |-> 1]

\* the ExpressionItem from token k on, of list and the repetition rep
expressionItemOf(cx, k, list, rep) ==
    parseOk(rep.k, OfExpressionItem(sourceSlice(cx, k, rep.k - 1), list, rep.n, rep.m))

\* after the list in parentheses: the closing parenthesis, the repetition
expressionItemOfList(cx, k, list) ==
    IF ~list.ok THEN list
    ELSE IF typeAt(cx, list.k) # CloseParens
    THEN parseFail(cx, list.k, {CloseParens})
    ELSE expressionItemOf(cx, k, list.node, parseRepetition(cx, list.k + 1))

\* after the one list item: the repetition
expressionItemOfItem(cx, k, item) ==
    IF ~item.ok THEN item
    ELSE expressionItemOf(cx, k, << item.node >>, parseRepetition(cx, item.k))

\* parseExpressionItem: a list in parentheses or one list item, then the
\* repetition
parseExpressionItem(cx, k) ==
    IF typeAt(cx, k) = OpenParens
    THEN expressionItemOfList(cx, k, parseList(cx, k + 1, << >>))
    ELSE expressionItemOfItem(cx, k, parseListItem(cx, k))

RECURSIVE parseAlternatives(_, _, _)
\* after an item: another one when a bar follows
alternativesWith(cx, items, item) ==
    IF ~item.ok THEN item
    ELSE IF typeAt(cx, item.k) = Bar
    THEN parseAlternatives(cx, item.k + 1, Append(items, item.node))
    ELSE parseOk(item.k, Append(items, item.node))

\* the items of an Expression: one, and another after each bar
parseAlternatives(cx, k, items) == alternativesWith(cx, items, parseExpressionItem(cx, k))

\* the Expression from token k on, of items
expressionOf(cx, k, items) ==
    IF ~items.ok THEN items
    ELSE parseOk(items.k, OfExpression(sourceSlice(cx, k, items.k - 1), items.node))

\* parseExpression
parseExpression(cx, k) == expressionOf(cx, k, parseAlternatives(cx, k, << >>))

ruleOf_noSemiColon(cx, k, expr) ==
    IF ~expr.ok THEN expr
    ELSE IF typeAt(cx, expr.k) # SemiColon
    THEN parseOk(expr.k, OfRule(sourceSlice(cx, k, expr.k - 1),
                                cx.toks[k].run.result.token, expr.node))
    ELSE parseOk(expr.k + 1, OfRule(sourceSlice(cx, k, expr.k),
                                    cx.toks[k].run.result.token, expr.node))

\* the Rule from token k on, of expr: a ; ends it
ruleOf(cx, k, expr) ==
    IF ~expr.ok THEN expr
    ELSE IF typeAt(cx, expr.k) # SemiColon
    THEN parseFail(cx, expr.k, {SemiColon})
    ELSE parseOk(expr.k + 1, OfRule(sourceSlice(cx, k, expr.k),
                                    cx.toks[k].run.result.token, expr.node))

\* parseRule: an Identifier, then =, then an Expression, then ;
parseRule(cx, k) ==
    IF typeAt(cx, k) # Identifier THEN parseFail(cx, k, {Identifier})
    ELSE IF typeAt(cx, k + 1) # Equals THEN parseFail(cx, k + 1, {Equals})
    ELSE ruleOf(cx, k, parseExpression(cx, k + 2))

RECURSIVE parseRules(_, _, _)
\* after a rule: the next one
rulesWith(cx, rules, rule) ==
    IF ~rule.ok THEN rule ELSE parseRules(cx, rule.k, Append(rules, rule.node))

\* one rule after the other until EOF; a Grammar has at least one rule
parseRules(cx, k, rules) ==
    IF typeAt(cx, k) = EOF
    THEN IF rules = << >>
         THEN [ok |-> FALSE, k |-> k, err |-> [kind |-> "EmptyGrammar", at |-> k]]
         ELSE parseOk(k, OfGrammar(SubSeq(cx.input, 1, cx.toks[k].run.pos), rules))
    ELSE rulesWith(cx, rules, parseRule(cx, k))

\* the outcome of the parse and the token it stopped at
grammarOutcome(cx, r) == [ok |-> r.ok, outcome |-> r, pulled |-> cx.toks[r.k]]

\* the parse of the tokens of cx
grammarOf(cx) == grammarOutcome(cx, parseRules(cx, 1, << >>))

\* parseGrammar() of a Parser whose Lexer reads input
parseGrammar(input, useless) ==
    grammarOf([input |-> input, toks |-> parserTokens(input, useless)])

\* what the parse p leaves: the Lexer i after the last token pulled, the
\* outcome of that call, and the Grammar or the error
parsedBy(i, p) ==
    /\ lexers' = [lexers EXCEPT ![i].pos = p.pulled.run.pos,
                                ![i].lineNumber = p.pulled.run.lineNumber]
    /\ uselessChars' = p.pulled.run.uselessChars
    /\ results' = [results EXCEPT ![i] =
                     [token |-> p.pulled.run.result, status |-> p.pulled.run.status,
                      err |-> p.pulled.run.err, from |-> p.pulled.from]]
    /\ parsed' = IF p.ok
                 THEN [status |-> "ok", lexer |-> i, grammar |-> p.outcome.node]
                 ELSE [status |-> "error", err |-> p.outcome.err, lexer |-> i]

\* Parser.parseGrammar(): the Parser pulls tokens from its Lexer up to the
\* token it stops at; it returns the Grammar or fails with the error
ParseGrammar(i) ==
    /\ results[i].status = "new"
    /\ parsedBy(i, parseGrammar(lexers[i].input, uselessChars))
    /\ UNCHANGED <<created, nodes, rendered, tableLexer>>

\* ------------------------------------------------------------------------
\* Readers holding pieces of a grammar, read by a Parser
\* ------------------------------------------------------------------------
MaxGrammarPieces == 3

GrammarPieces ==
    { <<ch_a, ch_equals, ch_a, ch_semi>>, <<ch_a>>, <<ch_equals>>, <<ch_semi>>,
      <<ch_bar>>, <<ch_oparen, ch_a, ch_comma, ch_a, ch_cparen>>, <<ch_qmark>>,
      <<ch_squote, ch_a, ch_squote>> \o optionStrings[1] }

\* the reader is filled before the one parse of the process
FeedGrammar == \E t \in GrammarPieces :
                   /\ parsed = NoParse
                   /\ lexers[1].pieces < MaxGrammarPieces
                   /\ Feed(1, t)

NextParser == NewLexer(1) \/ FeedGrammar \/ ParseGrammar(1)

SpecParser == Init /\ [][NextParser]_vars

\* the Next() calls on the reader of Lexer 1 up to EOF or to the first
\* lexical error, those that return a comment left out
StreamCalls ==
    SelectSeq(Tokenize(lexers[1].input),
              LAMBDA c : ~(c.run.status = "return" /\ c.run.result.typ = Comment))

\* the types of their tokens, InvalidLexType for a lexical error
StreamTypes(calls) ==
    [k \in 1 .. Len(calls) |->
        IF calls[k].run.status = "return" THEN calls[k].run.result.typ ELSE InvalidLexType]

\* where token k of a stream stands in the order Identifier, '=',
\* expression, ';': "name" before a rule, "equals" after its name, "first"
\* at the first token of its expression, "more" after that
RECURSIVE OrderPlace(_, _)
OrderPlace(types, k) ==
    IF k = 1 THEN "name"
    ELSE LET before == OrderPlace(types, k - 1)
         IN  CASE before = "name" -> "equals"
               [] before = "equals" -> "first"
               [] before = "first" -> "more"
               [] OTHER -> IF types[k - 1] = SemiColon THEN "name" ELSE "more"

\* token k breaks the order
BreaksOrder(types, k) ==
    LET place == OrderPlace(types, k)
    IN  CASE place = "name" -> types[k] # Identifier /\ ~(types[k] = EOF /\ k > 1)
          [] place = "equals" -> types[k] # Equals
          [] place = "first" -> types[k] \in {SemiColon, Equals, EOF, InvalidLexType}
          [] OTHER -> types[k] \in {Equals, EOF, InvalidLexType}

\* the first token that breaks the order, 0 when none does
FirstBreak(types) ==
    LET breaks == {k \in 1 .. Len(types) : BreaksOrder(types, k)}
    IN  IF breaks = {} THEN 0 ELSE CHOOSE k \in breaks : \A j \in breaks : k <= j

\* the names in a stream that keeps the order: one per ';'
NamePlaces(types) == {k \in 1 .. Len(types) : OrderPlace(types, k) = "name" /\ types[k] = Identifier}

\* C28: parseGrammar returns a Grammar only if the token stream up to EOF
\* is a sequence of rules Identifier, '=', expression, ';' (the Grammar has
\* one rule per ';'); when a token breaks this order it fails, at that
\* token or before it, having pulled no token after the one it failed at,
\* and a failed parse returns no Grammar at all
C28_GrammarOnlyOfRuleSequence ==
    parsed.status # "none" /\ results[1].status # "new" =>
        LET calls == StreamCalls
            types == StreamTypes(calls)
            break == FirstBreak(types)
        IN  /\ parsed.status = "ok" =>
                /\ break = 0
                /\ types[Len(types)] = EOF
                /\ parsed.grammar.type = "Grammar"
                /\ Len(parsed.grammar.rules) = Cardinality(NamePlaces(types))
                /\ Len(parsed.grammar.rules) >= 1
                /\ results[1].status = "return" /\ results[1].token.typ = EOF
            /\ break # 0 =>
                /\ parsed.status = "error"
                /\ parsed.err.at <= break
            /\ parsed.status = "error" =>
                /\ DOMAIN parsed = {"status", "lexer", "err"}
                /\ types[parsed.err.at] # InvalidLexType =>
                       parsed.err.kind \in {"UnexpectedToken", "EmptyGrammar"}
                /\ lexers[1].pos = calls[parsed.err.at].run.pos

C28_Witness ==
    /\ parsed.status = "ok"
    /\ results[1].status = "return"
    /\ Len(parsed.grammar.rules) = 2
    /\ lexers[1].pieces = 3

\* C29: the process-wide table of useless characters never changes: in
\* every reachable state uselessChars holds exactly 0x00-0x08, 0x0B, 0x0C,
\* 0x0E-0x1F and 0x7F
C29_UselessCharsConstant ==
    uselessChars = (0 .. 8) \cup {11, 12} \cup (14 .. 31) \cup {127}

\* ------------------------------------------------------------------------
\* Readers holding whitespace and one-character tokens
\* ------------------------------------------------------------------------
MaxWhitespaceLen == 5

WhitespaceAlphabet == {ch_space, ch_tab, ch_cr, ch_lf, ch_semi}

FeedWhitespace == \E c \in WhitespaceAlphabet :
                      lexers[1].pieces < MaxWhitespaceLen /\ Feed(1, <<c>>)

NextWhitespace == NewLexer(1) \/ FeedWhitespace \/ LexerNext(1)

SpecWhitespace == Init /\ [][NextWhitespace]_vars

\* the line terminators of a text: each LF not right after a CR, and each CR
LineTerminators(text) ==
    Cardinality({ j \in 1 .. Len(text) :
                    \/ text[j] = ch_cr
                    \/ text[j] = ch_lf /\ ~(j > 1 /\ text[j - 1] = ch_cr) })

\* what Lexer i has consumed so far
Consumed(i) == SubSeq(lexers[i].input, 1, lexers[i].pos)

\* C31: while whitespace between tokens is skipped the line counter
\* advances by one for each lone LF, each lone CR and each CRLF pair: after
\* the calls made so far on a reader of whitespace and semicolons the
\* counter is 1 plus the number of those in what was consumed (CR LF counts
\* once, CR space LF twice)
C31_WhitespaceLineCount ==
    lexers[1].lineNumber = 1 + LineTerminators(Consumed(1))

C31_Witness ==
    /\ lexers[1].input = <<ch_cr, ch_lf, ch_cr, ch_space, ch_lf>>
    /\ TokenizedToEOF
    /\ lexers[1].lineNumber = 4

\* C32: after any sequence of Next() calls the line counter is 1 plus the
\* number of line terminators (LF, CR, or CRLF counted once) in the input
\* consumed so far, those inside comments and the one that ends a //
\* comment included
C32_LineCountOfConsumed ==
    \A i \in Lexers : lexers[i].lineNumber = 1 + LineTerminators(Consumed(i))

\* C33: the payload of a returned token is present just when its type
\* requires it: a token that is not a CharacterRange has a nil Range() and
\* InvertedRange() false, a token that is not a Repetition has
\* Repetitions() (0,0), and a CharacterRange token has a non-nil Range()
C33_PayloadIffKind ==
    \A i \in Lexers :
        Returned(i) =>
            LET tok == results[i].token
            IN  /\ tok.typ # CharacterRange =>
                      tok.charRange.ref = "nil" /\ ~tok.charRangeInverted
                /\ tok.typ # Repetition => tok.n = 0 /\ tok.m = 0
                /\ tok.typ = CharacterRange => tok.charRange.ref # "nil"

\* a CharacterRange token returned after a Repetition token was
C33_Witness ==
    /\ Returned(1)
    /\ results[1].token.typ = CharacterRange
    /\ results[1].token.charRange.ref = "own"
    /\ results[1].from > 0
    /\ lexers[1].input[1] = ch_star

\* ------------------------------------------------------------------------
\* The table-driven lexer (package goparse)
\* ------------------------------------------------------------------------
\* Lexical token types
lexInvalid == 0
lexEOF == 1
lexCommentOneLine == 2
lexCommentMultiLine == 3
lexString == 4
lexRange == 5

\* Lexical table actions: the flags of lexActions.actions, which is modelled
\* as the set of the flags that are set.  lexAdvance and lexError are used
\* by the table of lexer_table.go.
lexSkip == 1
lexUnread == 2
lexEOFOK == 4
lexDone == 8
lexAdvance == 16
lexError == 32

\* -1 refers to any other character
anyOther == -1

\* lexActions{row, actions, lexType, errCode}: the fields not given keep
\* Go's zero value
lexActionsOf(row, actions, lexType) ==
    [row |-> row, actions |-> actions, lexType |-> lexType, errCode |-> ""]

lexActionsError(errCode) ==
    [row |-> 0, actions |-> {lexError}, lexType |-> lexInvalid, errCode |-> errCode]

\* the table of lexer.go: rows 0 to 4, each a map from rune to lexActions
lexTable ==
    [r \in 0 .. 4 |->
        CASE r = 0 -> (ch_tab :> lexActionsOf(0, {lexSkip, lexEOFOK}, lexEOF))
                      @@ (ch_lf :> lexActionsOf(0, {lexSkip, lexEOFOK}, lexEOF))
                      @@ (ch_space :> lexActionsOf(0, {lexSkip, lexEOFOK}, lexEOF))
                      @@ (ch_slash :> lexActionsOf(1, {}, lexInvalid))
          [] r = 1 -> (ch_slash :> lexActionsOf(2, {lexEOFOK}, lexCommentOneLine))
                      @@ (ch_star :> lexActionsOf(3, {}, lexInvalid))
          [] r = 2 -> (ch_cr :> lexActionsOf(0, {lexUnread, lexDone}, lexCommentOneLine))
                      @@ (ch_lf :> lexActionsOf(0, {lexUnread, lexDone}, lexCommentOneLine))
                      @@ (anyOther :> lexActionsOf(2, {lexEOFOK}, lexCommentOneLine))
          [] r = 3 -> (ch_star :> lexActionsOf(4, {}, lexInvalid))
                      @@ (anyOther :> lexActionsOf(3, {}, lexInvalid))
          [] OTHER -> (ch_star :> lexActionsOf(4, {}, lexInvalid))
                      @@ (ch_slash :> lexActionsOf(0, {lexDone}, lexCommentMultiLine))
                      @@ (anyOther :> lexActionsOf(3, {}, lexInvalid))]

\* the table of lexer_table.go: rows 0 to 13
lexTable_rows14 ==
    [r \in 0 .. 13 |->
        CASE r = 0 -> (ch_tab :> lexActionsOf(0, {lexSkip, lexAdvance, lexEOFOK}, lexEOF))
                      @@ (ch_lf :> lexActionsOf(0, {lexSkip, lexAdvance, lexEOFOK}, lexEOF))
                      @@ (ch_space :> lexActionsOf(0, {lexSkip, lexAdvance, lexEOFOK}, lexEOF))
                      @@ (ch_slash :> lexActionsOf(1, {}, lexInvalid))
                      @@ (ch_squote :> lexActionsOf(5, {}, lexInvalid))
                      @@ (ch_dquote :> lexActionsOf(8, {}, lexInvalid))
                      @@ (ch_obracket :> lexActionsOf(10, {}, lexInvalid))
          [] r = 1 -> (ch_slash :> lexActionsOf(2, {lexEOFOK}, lexCommentOneLine))
                      @@ (ch_star :> lexActionsOf(3, {}, lexInvalid))
          [] r = 2 -> (ch_lf :> lexActionsOf(0, {lexUnread, lexDone}, lexCommentOneLine))
                      @@ (anyOther :> lexActionsOf(2, {lexEOFOK}, lexCommentOneLine))
          [] r = 3 -> (ch_star :> lexActionsOf(4, {}, lexInvalid))
                      @@ (anyOther :> lexActionsOf(3, {}, lexInvalid))
          [] r = 4 -> (ch_star :> lexActionsOf(4, {}, lexInvalid))
                      @@ (ch_slash :> lexActionsOf(0, {lexDone}, lexCommentMultiLine))
                      @@ (anyOther :> lexActionsOf(3, {}, lexInvalid))
          [] r = 5 -> (ch_squote :> lexActionsError("stringne"))
                      @@ (ch_backslash :> lexActionsOf(6, {}, lexInvalid))
                      @@ (anyOther :> lexActionsOf(7, {}, lexInvalid))
          [] r = 6 -> (ch_backslash :> lexActionsOf(7, {}, lexInvalid))
                      @@ (ch_t :> lexActionsOf(7, {}, lexInvalid))
                      @@ (ch_n :> lexActionsOf(7, {}, lexInvalid))
                      @@ (ch_squote :> lexActionsOf(7, {}, lexInvalid))
                      @@ (ch_dquote :> lexActionsOf(7, {}, lexInvalid))
                      @@ (anyOther :> lexActionsError("stringesc"))
          [] r = 7 -> (ch_squote :> lexActionsOf(0, {lexDone}, lexString))
                      @@ (ch_backslash :> lexActionsOf(6, {}, lexInvalid))
                      @@ (anyOther :> lexActionsOf(7, {}, lexInvalid))
          [] r = 8 -> (ch_dquote :> lexActionsError("stringne"))
                      @@ (ch_backslash :> lexActionsOf(9, {}, lexInvalid))
                      @@ (anyOther :> lexActionsOf(10, {}, lexInvalid))
          [] r = 9 -> (ch_backslash :> lexActionsOf(10, {}, lexInvalid))
                      @@ (ch_t :> lexActionsOf(10, {}, lexInvalid))
                      @@ (ch_n :> lexActionsOf(10, {}, lexInvalid))
                      @@ (ch_squote :> lexActionsOf(10, {}, lexInvalid))
                      @@ (ch_dquote :> lexActionsOf(10, {}, lexInvalid))
          [] r = 10 -> (ch_dquote :> lexActionsOf(0, {lexDone}, lexString))
                       @@ (ch_backslash :> lexActionsOf(9, {}, lexInvalid))
                       @@ (anyOther :> lexActionsOf(10, {}, lexInvalid))
          [] r = 11 -> (ch_cbracket :> lexActionsError("rangene"))
                       @@ (ch_backslash :> lexActionsOf(12, {}, lexInvalid))
                       @@ (anyOther :> lexActionsOf(13, {}, lexInvalid))
          [] r = 12 -> (ch_backslash :> lexActionsOf(13, {}, lexInvalid))
                       @@ (ch_t :> lexActionsOf(13, {}, lexInvalid))
                       @@ (ch_n :> lexActionsOf(13, {}, lexInvalid))
                       @@ (ch_cbracket :> lexActionsOf(13, {}, lexInvalid))
          [] OTHER -> (ch_cbracket :> lexActionsOf(0, {lexDone}, lexRange))
                      @@ (ch_backslash :> lexActionsOf(12, {}, lexInvalid))
                      @@ (anyOther :> lexActionsOf(13, {}, lexInvalid))]

\* goiter.RunePositionIter over the runes of input, pos of them consumed.
\* It delivers every EOL sequence (CR LF, CR, LF) as one '\n'; Line() and
\* Position() are 1-based and are those of the rune that comes next.
runeIterNext(input, pos) == pos < Len(input)

runeIterAfter(input, pos) ==
    IF input[pos + 1] = ch_cr /\ pos + 2 <= Len(input) /\ input[pos + 2] = ch_lf
    THEN pos + 2 ELSE pos + 1

runeIterValue(input, pos) ==
    IF input[pos + 1] \in {ch_cr, ch_lf} THEN ch_lf ELSE input[pos + 1]

runeIterEOLs(input, pos) ==
    { j \in 1 .. pos : \/ input[j] = ch_lf
                       \/ input[j] = ch_cr /\ ~(j < pos /\ input[j + 1] = ch_lf) }

runeIterLine(input, pos) == 1 + Cardinality(runeIterEOLs(input, pos))

runeIterPosition(input, pos) ==
    LET eols == runeIterEOLs(input, pos)
    IN  pos + 1 - (IF eols = {} THEN 0 ELSE CHOOSE j \in eols : \A e \in eols : e <= j)

\* the local variables of next() at its start, the iterator at pos: line
\* and position start at 1
tableNextVars(pos) ==
    [status |-> "run", pos |-> pos, row |-> 0, token |-> << >>, line |-> 1,
     position |-> 1, theLexActions |-> lexActionsOf(0, {lexSkip, lexEOFOK}, lexEOF),
     eofOK |-> FALSE, errCode |-> "", errLine |-> 0, errPosition |-> 0]

\* panicLexError(msg, l.iter.Line(), l.iter.Position())
panicLexError(input, st, msg) ==
    [st EXCEPT !.status = "panic", !.errCode = msg,
               !.errLine = runeIterLine(input, st.pos),
               !.errPosition = runeIterPosition(input, st.pos)]

\* row[nextChar], or row[-1] when the row has no entry for nextChar
rowActions(row, nextChar) ==
    IF nextChar \in DOMAIN row THEN [have |-> TRUE, actions |-> row[nextChar]]
    ELSE IF anyOther \in DOMAIN row THEN [have |-> TRUE, actions |-> row[anyOther]]
    ELSE [have |-> FALSE, actions |-> lexActionsOf(0, {}, lexInvalid)]

\* an entry with the lexError action: the call panics with a LexError that
\* holds the entry's errCode
lexErrorPanic(input, st, act) ==
    panicLexError(input, [st EXCEPT !.theLexActions = act], act.errCode)

\* the rest of one iteration once the actions of nextChar are known: skip,
\* unread, done, write, jump
tableApply(input, st, before, nextChar, act) ==
    LET skipped == IF lexSkip \in act.actions
                   THEN [st EXCEPT !.line = runeIterLine(input, st.pos),
                                   !.position = runeIterPosition(input, st.pos)]
                   ELSE st
        unread == IF lexUnread \in act.actions
                  THEN [skipped EXCEPT !.pos = before] ELSE skipped
        writeChar == lexSkip \notin act.actions /\ lexUnread \notin act.actions
    IN  IF lexError \in act.actions
        THEN lexErrorPanic(input, st, act)
        ELSE IF lexDone \in act.actions
        THEN [unread EXCEPT !.status = "done", !.theLexActions = act]
        ELSE [unread EXCEPT !.theLexActions = act, !.row = act.row,
                            !.token = IF writeChar THEN Append(@, nextChar) ELSE @]

\* one iteration of the loop of next() over table
tableLoopBody(table, input, st) ==
    IF runeIterNext(input, st.pos)
    THEN LET nextChar == runeIterValue(input, st.pos)
             found == rowActions(table[st.row], nextChar)
             read == [st EXCEPT !.pos = runeIterAfter(input, st.pos)]
         IN  IF ~found.have
             THEN panicLexError(input, [read EXCEPT !.theLexActions = found.actions],
                                "lexErrSyntax")
             ELSE tableApply(input, read, st.pos, nextChar, found.actions)
    ELSE IF lexEOFOK \notin st.theLexActions.actions
         THEN panicLexError(input, st, "lexErrEOF")
         ELSE [st EXCEPT !.status = "done", !.eofOK = TRUE]

RECURSIVE tableLoop(_, _, _)
tableLoop(table, input, st) ==
    IF st.status # "run" THEN st ELSE tableLoop(table, input, tableLoopBody(table, input, st))

\* lexer.next() over table with the iterator at pos: the final local state,
\* whose status is "return" or "panic"
tableNextRun(table, input, pos) ==
    LET st == tableLoop(table, input, tableNextVars(pos))
    IN  IF st.status = "panic" THEN st
        ELSE IF st.theLexActions.lexType = lexEOF /\ ~st.eofOK
        THEN panicLexError(input, st, "lexErrEOF")
        ELSE [st EXCEPT !.status = "return"]

\* the lexer after the call that ended as r
tableOutcome(lx, r) ==
    [token |-> r.token, pos |-> r.pos, status |-> r.status,
     err |-> [line |-> r.errLine, position |-> r.errPosition, code |-> r.errCode],
     input |-> lx.input, from |-> lx.pos, pieces |-> lx.pieces,
     line |-> r.line, lexType |-> r.theLexActions.lexType, position |-> r.position]

\* newLexer(source)
NewTableLexer ==
    /\ tableLexer.status = "unborn"
    /\ tableLexer' = [tableLexer EXCEPT !.status = "new"]
    /\ UNCHANGED <<uselessChars, lexers, results, created, nodes, rendered, parsed>>

\* the content of the reader is fixed piece by piece before the first
\* next() call
FeedTable(text) ==
    /\ tableLexer.status = "new"
    /\ tableLexer' = [tableLexer EXCEPT !.input = @ \o text, !.pieces = @ + 1]
    /\ UNCHANGED <<uselessChars, lexers, results, created, nodes, rendered, parsed>>

\* next() can be called until it returned lexEOF or panicked
CanCallTableNext ==
    \/ tableLexer.status = "new"
    \/ tableLexer.status = "return" /\ tableLexer.lexType # lexEOF

\* lexer.next() of a lexer built on table: the lexicalToken it returns, or
\* the LexError it panics with
TableNext(table) ==
    /\ CanCallTableNext
    /\ tableLexer' = tableOutcome(tableLexer, tableNextRun(table, tableLexer.input, tableLexer.pos))
    /\ UNCHANGED <<uselessChars, lexers, results, created, nodes, rendered, parsed>>

\* ------------------------------------------------------------------------
\* Readers of the table-driven lexer holding whitespace and comments
\* ------------------------------------------------------------------------
MaxTablePieces == 4

TablePieces ==
    { <<ch_slash, ch_star>>, <<ch_star, ch_slash>>, <<ch_slash, ch_slash>>,
      <<ch_space>>, <<ch_lf>>, <<ch_cr>>, <<ch_a>> }

FeedTablePiece == \E t \in TablePieces :
                      tableLexer.pieces < MaxTablePieces /\ FeedTable(t)

TableNextComments == TableNext(lexTable)

NextTableLexer == NewTableLexer \/ FeedTablePiece \/ TableNextComments

SpecTableLexer == Init /\ [][NextTableLexer]_vars

\* the index of the first significant character of the token the latest
\* next() call returned
TableTokenStart == SkipWhitespace(tableLexer.input, tableLexer.from) + 1

\* C34: the line and position reported with a token are those of its first
\* significant character, whether or not whitespace was skipped before it
C34_TokenPositionAtFirstChar ==
    tableLexer.status = "return" /\ tableLexer.lexType # lexEOF =>
        /\ tableLexer.line = LineAt(tableLexer.input, TableTokenStart)
        /\ tableLexer.position = ColumnAt(tableLexer.input, TableTokenStart)

\* the same for the tokens that whitespace precedes and for the first token
\* of the reader
C34_AfterWhitespaceOrFirst ==
    /\ tableLexer.status = "return"
    /\ tableLexer.lexType # lexEOF
    /\ tableLexer.from = 0 \/ TableTokenStart > tableLexer.from + 1
    => /\ tableLexer.line = LineAt(tableLexer.input, TableTokenStart)
       /\ tableLexer.position = ColumnAt(tableLexer.input, TableTokenStart)


\* C35: the pretty text of an Expression is its alternatives' texts, each
\* as the alternative renders alone, joined by one of the two separators:
\* the switch to the multi-line form rewrites the separators and nothing
\* inside an alternative, also one that holds " | " itself
C35_SwitchKeepsAlternatives ==
    RenderedExpression =>
        LET texts == AlternativeTexts(rendered.node)
        IN  \/ rendered.text = OneLine(texts)
            \/ rendered.text = MultiLine(texts)


\* ------------------------------------------------------------------------
\* String Terminals lexed, pretty-printed and lexed again
\* ------------------------------------------------------------------------
MaxStringContent == 3

\* '\x07', one of the control characters a string may hold
ch_bel == 7

StringAlphabet == {ch_a, ch_n, ch_backslash, ch_squote, ch_dquote, ch_bel}

StringContents ==
    UNION { [1 .. k -> StringAlphabet] : k \in 0 .. MaxStringContent }

\* the reader of Lexer 1 holds one single-quoted string
FeedString == \E body \in StringContents :
                  /\ lexers[1].pieces = 0
                  /\ Feed(1, <<ch_squote>> \o body \o <<ch_squote>>)

\* the Terminal of the String token the first Next() call of Lexer 1
\* returned
StringTerminalOfToken ==
    /\ NothingBuilt
    /\ FirstCallDone(1)
    /\ results[1].token.typ = String
    /\ TerminalOfToken(1)

\* the pretty text of the Terminal becomes the content of the reader of
\* Lexer 2
FeedRenderedString ==
    /\ rendered.op = "String"
    /\ lexers[2].pieces = 0
    /\ Feed(2, rendered.text)

NextStringTerminals ==
    \/ NewLexerInOrder
    \/ FeedString
    \/ LexerNext(1)
    \/ StringTerminalOfToken
    \/ RenderNode
    \/ FeedRenderedString
    \/ LexerNext(2)

SpecStringTerminals == Init /\ [][NextStringTerminals]_vars

\* a string Terminal (IsString: its value is not empty) made of a token of
\* Lexer 1 was pretty-printed and the first Next() call on its pretty text
\* was made
LexedRenderedString ==
    /\ rendered.op = "String"
    /\ rendered.node.type = "Terminal"
    /\ nodes.call.op = "OfTerminalString"
    /\ IsString(rendered.node)
    /\ lexers[2].pieces = 1
    /\ FirstCallDone(2)

\* C36: lexing the pretty text of a string Terminal whose value is the
\* Token() of a String token returns a String token with the same Token()
C36_StringRoundTrip ==
    LexedRenderedString =>
        /\ Returned(2)
        /\ results[2].token.typ = String
        /\ results[2].token.token = TerminalString(rendered.node)

\* the same for the values that hold no control character besides tab, CR
\* and LF
C36_PrintableRoundTrip ==
    /\ LexedRenderedString
    /\ \A k \in 1 .. Len(TerminalString(rendered.node)) :
           LET c == TerminalString(rendered.node)[k]
           IN  c \in {ch_tab, ch_cr, ch_lf} \/ (c >= 32 /\ c # 127)
    => /\ Returned(2)
       /\ results[2].token.typ = String
       /\ results[2].token.token = TerminalString(rendered.node)


\* ------------------------------------------------------------------------
\* Repetitions lexed, pretty-printed after a list and lexed again
\* ------------------------------------------------------------------------
\* the ExpressionItem of the rule reference a with the bounds of the
\* Repetition token the first Next() call of Lexer 1 returned
RepeatedItemOfToken ==
    /\ NothingBuilt
    /\ FirstCallDone(1)
    /\ IsRepetitionToken(1)
    /\ LET tok == results[1].token
           source == <<ch_a>> \o tok.formattedToken
       IN  Built(OfExpressionItem(source, << OfListItemRuleName(<<ch_a>>, <<ch_a>>, << >>) >>,
                                  tok.n, tok.m),
                 [sourceString |-> source, op |-> "OfExpressionItem"])

RECURSIVE LastIndexOf(_, _)
\* strings.LastIndex for one character, counted from 1, or 0
LastIndexOf(s, c) ==
    IF s = << >> THEN 0
    ELSE IF s[Len(s)] = c THEN Len(s)
    ELSE LastIndexOf(SubSeq(s, 1, Len(s) - 1), c)

\* what the pretty text holds after its closing parenthesis
WrittenSuffix(text) == SubSeq(text, LastIndexOf(text, ch_cparen) + 1, Len(text))

\* the suffix of the pretty text of a parenthesized ExpressionItem becomes
\* the content of the reader of Lexer 2
FeedSuffix ==
    /\ rendered.op = "String"
    /\ rendered.node.type = "ExpressionItem"
    /\ LastIndexOf(rendered.text, ch_cparen) > 0
    /\ lexers[2].pieces = 0
    /\ Feed(2, WrittenSuffix(rendered.text))

NextRepetitionTrips ==
    \/ NewLexerInOrder
    \/ FeedRepetition
    \/ LexerNext(1)
    \/ RepeatedItemOfToken
    \/ RenderNode
    \/ FeedSuffix
    \/ LexerNext(2)

SpecRepetitionTrips == Init /\ [][NextRepetitionTrips]_vars

\* the first Next() call on the suffix written for the bounds of a
\* Repetition token other than (1,1) was made
LexedSuffix ==
    /\ rendered.op = "String"
    /\ rendered.node.type = "ExpressionItem"
    /\ nodes.call.op = "OfExpressionItem"
    /\ ~(rendered.node.n = 1 /\ rendered.node.m = 1)
    /\ lexers[2].pieces = 1
    /\ FirstCallDone(2)

\* C37: lexing the suffix ExpressionItem.String() writes for the bounds
\* (n,m) of a Repetition token, (1,1) aside, returns a Repetition token with
\* the same (n,m)
C37_BoundsRoundTrip ==
    LexedSuffix =>
        /\ IsRepetitionToken(2)
        /\ results[2].token.n = rendered.node.n
        /\ results[2].token.m = rendered.node.m

\* the suffix {2,} written for the bounds of the token {2,} was lexed to
\* the bounds (2,-1)
C37_Witness ==
    /\ LexedSuffix
    /\ rendered.node.n = 2
    /\ rendered.node.m = -1
    /\ lexers[2].input = <<ch_obrace, ch_2, ch_comma, ch_cbrace>>
    /\ IsRepetitionToken(2)
    /\ results[2].token.n = 2
    /\ results[2].token.m = -1


\* ------------------------------------------------------------------------
\* '=' at the end of the reader
\* ------------------------------------------------------------------------
\* C38: an Equals token is returned only with a character left in the
\* reader after the '='; a call that meets '=' as the last character of the
\* reader panics with ErrUnexpectedEOF
C38_EqualsNeedsLookahead ==
    \A i \in Lexers :
        LET src == lexers[i].input
            p == CallStart(i) + 1
        IN  /\ Returned(i) /\ results[i].token.typ = Equals
               => lexers[i].pos < Len(src) /\ src[lexers[i].pos] = ch_equals
            /\ CallDone(i) /\ p = Len(src) /\ src[p] = ch_equals
               => Panicked(i, ErrUnexpectedEOF)

\* "a=": the second call, at the '=' that ends the reader, panicked
C38_Witness ==
    /\ lexers[1].input = <<ch_a, ch_equals>>
    /\ results[1].from = 1
    /\ Panicked(1, ErrUnexpectedEOF)


\* ------------------------------------------------------------------------
\* LexType.String()
\* ------------------------------------------------------------------------
\* a uint is held as UintLimbs limbs of 16 bits, the lowest first (uint is
\* 64 bits wide on the usual builds)
LimbBase == 65536

UintLimbs == 4

\* uint(n) for an n from 0 to 2^31 - 1
toUint(n) ==
    [k \in 1 .. UintLimbs |->
        IF k = 1 THEN n % LimbBase ELSE IF k = 2 THEN n \div LimbBase ELSE 0]

RECURSIVE uintSubFrom(_, _, _, _)
\* the limbs k and above of a - b, given the borrow of the limbs below
uintSubFrom(a, b, k, borrow) ==
    IF k > UintLimbs THEN << >>
    ELSE LET d == a[k] - b[k] - borrow
         IN  <<d % LimbBase>> \o uintSubFrom(a, b, k + 1, IF d < 0 THEN 1 ELSE 0)

\* a - b on uint: the difference wraps around
uintSub(a, b) == uintSubFrom(a, b, 1, 0)

\* the index expression s[i] for a uint i: i when it is inside s, or the
\* runtime panic
indexIn(i, len) ==
    IF (\A k \in 2 .. UintLimbs : i[k] = 0) /\ i[1] < len
    THEN [ok |-> TRUE, at |-> i[1] + 1]
    ELSE [ok |-> FALSE, at |-> 0]

ErrIndexOutOfRange == "index out of range"

\* LexType.String(): optionStrings[uint(t)-uint(OptionAST)]
LexType_String(t) ==
    LET i == indexIn(uintSub(toUint(t), toUint(OptionAST)), Len(optionStrings))
    IN  IF i.ok THEN [text |-> optionStrings[i.at], err |-> ""]
        ELSE [text |-> << >>, err |-> ErrIndexOutOfRange]

\* the LexType constants
LexTypes == InvalidLexType .. EOF

\* t.String() for a LexType constant t
LexTypeString ==
    /\ rendered = NoRendering
    /\ \E t \in LexTypes :
          LET r == LexType_String(t)
          IN  rendered' = [err |-> r.err, text |-> r.text,
                           node |-> [typ |-> t, type |-> "LexType"],
                           op |-> "LexType.String"]
    /\ UNCHANGED <<uselessChars, lexers, results, created, nodes, parsed, tableLexer>>

\* what may follow the spelling in the reader
SpellingEndings == { << >>, <<ch_space>>, <<ch_semi>>, <<ch_a>> }

\* the spelling String() returned, and what follows it, become the content
\* of the reader of Lexer 1
FeedSpelling ==
    /\ rendered.op = "LexType.String"
    /\ rendered.err = ""
    /\ lexers[1].pieces = 0
    /\ \E e \in SpellingEndings : Feed(1, rendered.text \o e)

NextTypeStrings ==
    \/ LexTypeString
    \/ NewLexer(1)
    \/ FeedSpelling
    \/ LexerNext(1)

SpecTypeStrings == Init /\ [][NextTypeStrings]_vars

\* String() was called on a LexType constant
TypeStringCalled == rendered.op = "LexType.String"

\* C39: String() returns for every LexType constant, never indexing outside
\* optionStrings, and the spelling it returns for an option type is lexed by
\* Next() to a token of that type
C39_TypeStringTotal ==
    TypeStringCalled =>
        /\ rendered.err = ""
        /\ rendered.node.typ \in LexerOptions /\ lexers[1].pieces = 1 /\ FirstCallDone(1)
           => Returned(1) /\ results[1].token.typ = rendered.node.typ

\* the part of C39 on the option types alone, for a spelling that a
\* character follows in the reader
C39_OptionSpellingsLexBack ==
    /\ TypeStringCalled
    /\ rendered.node.typ \in LexerOptions
    => /\ rendered.err = ""
       /\ lexers[1].pieces = 1 /\ FirstCallDone(1)
             /\ Len(lexers[1].input) > Len(rendered.text)
          => Returned(1) /\ results[1].token.typ = rendered.node.typ


\* ------------------------------------------------------------------------
\* Readers of the table-driven lexer holding ranges and strings, lexed by
\* the table of lexer_table.go
\* ------------------------------------------------------------------------
TableRangePieces ==
    { <<ch_obracket>>, <<ch_cbracket>>, <<ch_a>>, <<ch_dquote>>, <<ch_backslash>>, <<ch_space>> }

FeedTableRangePiece == \E t \in TableRangePieces :
                           tableLexer.pieces < MaxTablePieces /\ FeedTable(t)

TableNextRows14 == TableNext(lexTable_rows14)

NextTableRanges == NewTableLexer \/ FeedTableRangePiece \/ TableNextRows14

SpecTableRanges == Init /\ [][NextTableRanges]_vars

\* a next() call was made whose first significant character is '['
TableCallAtBracket ==
    /\ tableLexer.status \in {"return", "panic"}
    /\ TableTokenStart <= Len(tableLexer.input)
    /\ tableLexer.input[TableTokenStart] = ch_obracket

\* C40: a token that starts with '[' is lexed by the range rows: the call
\* returns no lexString token, a token it returns is a lexRange token whose
\* last character read is ']', and "[]" is the error rangene
C40_BracketStartsRange ==
    TableCallAtBracket =>
        /\ tableLexer.status = "return" =>
              /\ tableLexer.lexType = lexRange
              /\ tableLexer.input[tableLexer.pos] = ch_cbracket
        /\ TableTokenStart < Len(tableLexer.input)
              /\ tableLexer.input[TableTokenStart + 1] = ch_cbracket
           => tableLexer.status = "panic" /\ tableLexer.err.code = "rangene"

====
